---- MODULE Spec2Model ----
(***************************************************************************)
(* Model of the Ethos-N profiling converter                                *)
(* (tools/visualizers/profiling_converter/src/main.rs): the command        *)
(* catalogues with their per-filter cursors, the classification of the     *)
(* runtime entries, the main pass over the profiling entries and the       *)
(* finalization of the trace.                                              *)
(*                                                                         *)
(* Conventions.  Rust's Option is a sequence of length 0 (None) or 1       *)
(* (Some).  A Rust Vec is a TLA+ sequence, so the element at Rust index i  *)
(* is the element i + 1 here; every index the program computes or stores   *)
(* (cursors, command_idx, agent_id) keeps its 0-based Rust value.  A JSON  *)
(* object and a HashMap are functions whose DOMAIN is the set of keys      *)
(* present.  A panic ends the run: pc = "aborted" and err names the panic. *)
(* The runs of the main pass start from a parsed command stream; the       *)
(* parser itself runs from an empty one, event by event.                   *)
(***************************************************************************)
EXTENDS Integers, Sequences, FiniteSets, TLC

VARIABLES
    agents,              \* Vec<Agent>
    dma_rd_commands,     \* CommandList
    dma_wr_commands,     \* CommandList
    mce_commands,        \* CommandList
    ple_commands,        \* CommandList
    in_progress_events,  \* HashMap<u64, (u64, u64, Option<usize>)>
    process_names,       \* HashMap<u64, String>
    thread_names,        \* HashMap<(u64, u64), String>
    mce_bank,            \* u32
    result,              \* process_json's result vector (main pass records)
    output,              \* the vector main serialises: None until written
    entries,             \* the prefix of the profiling entries consumed so far
    kinds,               \* the entry shapes the profiling entries are drawn from
    calls,               \* history of the advance calls made (advance harness)
    pc,                  \* "main", "done", "aborted" ("calls" in the advance
                         \* harness, "parsing" and "parsed" in the parser)
    err,                 \* the panic that aborted the run, "" when none
    xml_events,          \* the XML events parse_command_stream has read so far
    element_name_stack,  \* Vec<String>: names of the open elements
    pending_elements_stack  \* Vec<PendingXmlElement>: the open elements

vars == <<agents, dma_rd_commands, dma_wr_commands, mce_commands, ple_commands,
          in_progress_events, process_names, thread_names, mce_bank, result,
          output, entries, kinds, calls, pc, err, xml_events,
          element_name_stack, pending_elements_stack>>

-----------------------------------------------------------------------------
(* Bounds of the model. *)

\* Longest profiling log (number of entries) the main pass consumes.
MaxLog == 3
\* Longest generated command list of the advance harness.
MaxCmds == 3
\* Most advance calls the advance harness makes on one set of catalogues.
MaxCalls == 3
\* Number of distinct HashMap iteration orders (hasher seeds) drawn per map.
NumSeeds == 2

Timestamps == {1, 2}
EventIds == {1, 2}

-----------------------------------------------------------------------------
(* Option and small helpers. *)

None == <<>>
Some(x) == <<x>>
IsSome(o) == o # <<>>
Unwrap(o) == o[1]

EmptyMap == <<>>

Max2(a, b) == IF a >= b THEN a ELSE b

RECURSIVE SeqMax(_)
SeqMax(s) == IF Len(s) = 1 THEN s[1] ELSE Max2(s[1], SeqMax(Tail(s)))

RECURSIVE SortedSeq(_)
\* The elements of a finite set of integers in ascending order.
SortedSeq(S) ==
    IF S = {} THEN <<>>
    ELSE LET m == CHOOSE x \in S : \A y \in S : x <= y
         IN <<m>> \o SortedSeq(S \ {m})

RemoveAt(s, i) == SubSeq(s, 1, i - 1) \o SubSeq(s, i + 1, Len(s))

RECURSIVE Factorial(_)
Factorial(n) == IF n <= 1 THEN 1 ELSE n * Factorial(n - 1)

RECURSIVE Unrank(_, _)
\* The k-th permutation (lexicographic, k taken modulo Len(s)!) of s.
Unrank(s, k) ==
    IF Len(s) <= 1 THEN s
    ELSE LET f == Factorial(Len(s) - 1)
             i == ((k \div f) % Len(s)) + 1
         IN <<s[i]>> \o Unrank(RemoveAt(s, i), k % f)

-----------------------------------------------------------------------------
(* The colour palette. *)

COLORS == <<
    "thread_state_uninterruptible", "thread_state_iowait", "thread_state_running",
    "thread_state_runnable", "thread_state_unknown", "background_memory_dump",
    "detailed_memory_dump", "vsync_highlight_color", "generic_work", "good", "bad",
    "grey", "yellow", "olive", "rail_response", "rail_animation", "rail_idle",
    "rail_load", "startup", "heap_dump_stack_frame", "heap_dump_object_type",
    "heap_dump_child_node_arrow", "cq_build_running", "cq_build_passed",
    "cq_build_failed", "cq_build_abandoned", "cq_build_attempt_runnig",
    "cq_build_attempt_passed", "cq_build_attempt_failed" >>

\* A variant of ColorOf that saturates at the last palette entry instead of
\* wrapping around.
ColorOfSaturating(agent_id) ==
    COLORS[IF agent_id < Len(COLORS) THEN agent_id + 1 ELSE Len(COLORS)]

\* COLORS[agent_id % COLORS.len()]
ColorOf(agent_id) == COLORS[(agent_id % Len(COLORS)) + 1]

-----------------------------------------------------------------------------
(* XmlElement, CommandList and CommandList::advance. *)

XmlElement(name, child_element_values, text_representation) ==
    [name |-> name,
     child_element_values |-> child_element_values,
     text_representation |-> text_representation]

CommandList(commands) ==
    [commands |-> commands, current_idx_per_filter |-> EmptyMap]

\* A variant of AdvanceScan with the name comparison dropped: it stops at the
\* first command at or after idx.
AdvanceScanNoCompare(commands, idx, command_name) ==
    IF idx >= Len(commands) THEN None ELSE Some(idx)

RECURSIVE AdvanceScan(_, _, _)
\* The while loop of advance: the first index at or after idx whose command
\* is named command_name; None when commands.get(idx) is None (the expect
\* panics).
AdvanceScan(commands, idx, command_name) ==
    IF idx >= Len(commands) THEN None
    ELSE IF commands[idx + 1].name # command_name
         THEN AdvanceScan(commands, idx + 1, command_name)
         ELSE Some(idx)

\* A variant of CursorAfter that stores the match itself, without the step
\* past it.
CursorAfterNoStep(cursors, filter_id, idx) ==
    [cursors EXCEPT ![filter_id] = idx]

\* A variant of CursorAfter that moves the cursor of every filter of the
\* catalogue past the match.
CursorAfterAllFilters(cursors, filter_id, idx) ==
    [f \in DOMAIN cursors |-> idx + 1]

\* "Move on once for next time": the cursor map after a match at idx.
CursorAfter(cursors, filter_id, idx) ==
    [cursors EXCEPT ![filter_id] = idx + 1]

\* A variant of CursorStart with one cursor shared by all the filters of the
\* catalogue (the furthest one).
CursorStartShared(cursors, filter_id) ==
    SeqMax(SortedSeq({cursors[f] : f \in DOMAIN cursors}))

\* A variant of CursorStart that rewinds: every scan starts at the first
\* command.
CursorStartRewind(cursors, filter_id) == 0

\* self.current_idx_per_filter[filter_id] after the insert-if-absent.
CursorStart(cursors, filter_id) == cursors[filter_id]

\* if !contains_key(filter_id) { insert(filter_id, 0) }
CursorsWithFilter(cursors, filter_id) ==
    IF filter_id \in DOMAIN cursors THEN cursors ELSE cursors @@ (filter_id :> 0)

\* What advance returns and leaves once the scan has ended: found = None is
\* the "Attempted to increment past end of command stream" panic (ok = FALSE).
AdvanceResult(list, cursors, filter_id, found) ==
    IF found = None
    THEN [ok |-> FALSE, result |-> 0,
          list |-> [list EXCEPT !.current_idx_per_filter = cursors]]
    ELSE [ok |-> TRUE, result |-> Unwrap(found),
          list |-> [list EXCEPT !.current_idx_per_filter =
                        CursorAfter(cursors, filter_id, Unwrap(found))]]

\* advance once the filter has a cursor.
AdvanceWithCursors(list, cursors, filter_id, command_name) ==
    AdvanceResult(list, cursors, filter_id,
                  AdvanceScan(list.commands, CursorStart(cursors, filter_id),
                              command_name))

\* CommandList::advance: result is the index returned and list the catalogue
\* afterwards.
advance(list, filter_id, command_name) ==
    AdvanceWithCursors(list,
                       CursorsWithFilter(list.current_idx_per_filter, filter_id),
                       filter_id, command_name)

-----------------------------------------------------------------------------
(* Text to number conversions.  A field value that the program parses is a *)
(* sequence of one-character strings.                                      *)

DigitVal ==
    ("0" :> 0) @@ ("1" :> 1) @@ ("2" :> 2) @@ ("3" :> 3) @@ ("4" :> 4) @@
    ("5" :> 5) @@ ("6" :> 6) @@ ("7" :> 7) @@ ("8" :> 8) @@ ("9" :> 9)

HexVal ==
    DigitVal @@
    ("a" :> 10) @@ ("b" :> 11) @@ ("c" :> 12) @@ ("d" :> 13) @@ ("e" :> 14) @@
    ("f" :> 15) @@ ("A" :> 10) @@ ("B" :> 11) @@ ("C" :> 12) @@ ("D" :> 13) @@
    ("E" :> 14) @@ ("F" :> 15)

RECURSIVE ParseRadix(_, _, _, _)
\* Left-to-right accumulation of the digits of chars in the given radix.
ParseRadix(chars, table, radix, acc) ==
    IF chars = <<>> THEN acc
    ELSE ParseRadix(Tail(chars), table, radix, acc * radix + table[chars[1]])

\* str::parse::<usize>(): None is the Err the program unwraps.
ParseUsize(chars) ==
    IF chars = <<>> \/ \E i \in 1..Len(chars) : chars[i] \notin DOMAIN DigitVal
    THEN None
    ELSE Some(ParseRadix(chars, DigitVal, 10, 0))

\* u32::from_str_radix(&s[2..], 16) & 0b111: None when the slice or the
\* parse panics.
HardwareId(chars) ==
    IF Len(chars) <= 2
       \/ \E i \in 3..Len(chars) : chars[i] \notin DOMAIN HexVal
    THEN None
    ELSE Some(ParseRadix(SubSeq(chars, 3, Len(chars)), HexVal, 16, 0) % 8)

\* format!("{:04}", n)
Pad4(n) ==
    IF n < 10 THEN "000" \o ToString(n)
    ELSE IF n < 100 THEN "00" \o ToString(n)
    ELSE IF n < 1000 THEN "0" \o ToString(n)
    ELSE ToString(n)

-----------------------------------------------------------------------------
(* The parsed command stream the runs of the main pass start from: six     *)
(* agents and the four catalogues, in declaration order.                   *)

Agent(xml) == [xml |-> xml, start_timestamp |-> None, end_timestamp |-> None]

Command(name, agent_id, dma_cmd, text) ==
    XmlElement(name, ("AGENT_ID" :> agent_id) @@ ("DMA_CMD" :> dma_cmd), text)

StripeCommand(name, agent_id, text) ==
    XmlElement(name, ("AGENT_ID" :> agent_id), text)

ParsedAgents == <<
    Agent(XmlElement("IFM_STREAMER", EmptyMap, "<IFM_STREAMER/>")),
    Agent(XmlElement("PLE_LOADER", ("PLE_KERNEL_ID" :> "V2442"), "<PLE_LOADER/>")),
    Agent(XmlElement("WEIGHTS", EmptyMap, "<WEIGHTS/>")),
    Agent(XmlElement("MCE_SCHEDULER", ("MCE_OP_MODE" :> "CONV_ALG"), "<MCE_SCHEDULER/>")),
    Agent(XmlElement("PLE_SCHEDULER", ("PLE_KERNEL_ID" :> "V4442"), "<PLE_SCHEDULER/>")),
    Agent(XmlElement("OFM_STREAMER", EmptyMap, "<OFM_STREAMER/>")) >>

ParsedDmaRd == <<
    Command("DMA_COMMAND", <<"0">>, <<"0", "x", "0", "9">>, "<DMA_COMMAND rd 0/>"),
    Command("COUNTER_COMMAND", <<"0">>, <<"0", "x", "0", "0">>, "<COUNTER_COMMAND rd 1/>"),
    Command("DMA_COMMAND", <<"2">>, <<"0", "x", "1", "A">>, "<DMA_COMMAND rd 2/>") >>

ParsedDmaWr == <<
    Command("DMA_COMMAND", <<"5">>, <<"0", "x", "2", "c">>, "<DMA_COMMAND wr 0/>"),
    Command("DMA_COMMAND", <<"5">>, <<"0", "x", "0", "5">>, "<DMA_COMMAND wr 1/>") >>

ParsedMce == <<
    StripeCommand("PROGRAM_MCE_STRIPE_COMMAND", <<"3">>, "<PROGRAM_MCE_STRIPE_COMMAND 0/>"),
    StripeCommand("START_MCE_STRIPE_COMMAND", <<"3">>, "<START_MCE_STRIPE_COMMAND 1/>"),
    StripeCommand("PROGRAM_MCE_STRIPE_COMMAND", <<"3">>, "<PROGRAM_MCE_STRIPE_COMMAND 2/>"),
    StripeCommand("START_MCE_STRIPE_COMMAND", <<"3">>, "<START_MCE_STRIPE_COMMAND 3/>") >>

ParsedPle == <<
    StripeCommand("LOAD_PLE_CODE_INTO_PLE_SRAM_COMMAND", <<"1">>, "<LOAD_PLE_CODE 0/>"),
    StripeCommand("START_PLE_STRIPE_COMMAND", <<"4">>, "<START_PLE_STRIPE_COMMAND 1/>"),
    StripeCommand("START_PLE_STRIPE_COMMAND", <<"1">>, "<START_PLE_STRIPE_COMMAND 2/>") >>

-----------------------------------------------------------------------------
(* hash_string.  DefaultHasher::new() has fixed keys, so the hash is a     *)
(* function of the label alone; it is modelled as an injective scrambling  *)
(* of the label's position in the list of the labels the program can       *)
(* build.                                                                  *)

AgentLabels ==
    [i \in 1..Len(ParsedAgents) |->
        "b) Agent " \o Pad4(i - 1) \o " (" \o ParsedAgents[i].xml.name \o ")"]

Labels ==
    << "a) Driver Library", "b) Command Stream", "c) NCU MCU", "d) DMA",
       "e) UDMA", "f) MCE", "g) PLE", "z) Counters",
       "a) Inference", "a) Events", "d) DMA stripe setup", "c) MCE stripe setup",
       "c) PLE stripe setup", "a) PLE", "a) UDMA", "g) LABELS", "<unused>" >>
    \o [k \in 1..8 |-> "a) DMA Load " \o ToString(k - 1)]
    \o [k \in 1..8 |-> "a) DMA Save " \o ToString(k - 1)]
    \o [k \in 1..2 |-> "a) MCE bank " \o ToString(k - 1)]
    \o [k \in 1..4 |-> "b) Buffer " \o ToString(k - 1)]
    \o AgentLabels

HashTable ==
    [i \in 1..Len(Labels) |-> ((i * 7919) % 10007)]

hash_string(s) ==
    HashTable[CHOOSE i \in 1..Len(Labels) : Labels[i] = s]

-----------------------------------------------------------------------------
(* process_timeline_event_start_or_instant. *)

\* A panic inside the classification or the main pass.
Panicked(kind) == [err |-> kind]

\* command_xml.child_element_values.get("AGENT_ID").unwrap().parse().unwrap()
AgentIdOf(command_xml) ==
    IF "AGENT_ID" \in DOMAIN command_xml.child_element_values
    THEN ParseUsize(command_xml.child_element_values["AGENT_ID"])
    ELSE None

\* The rest of handle_command_and_agent once the agent id is parsed: the
\* lookup of the agent and the four inserts into args.
ResolvedAgent(list, command_idx, command_xml, parsed, agent_list, args) ==
    IF parsed = None \/ Unwrap(parsed) >= Len(agent_list)
    THEN Panicked("Panic")
    ELSE [err |-> "",
          agent_id |-> Unwrap(parsed),
          agent_xml |-> agent_list[Unwrap(parsed) + 1].xml,
          command_idx |-> command_idx,
          command_xml |-> command_xml,
          args |-> ("command_idx" :> command_idx)
                   @@ ("command_xml" :> command_xml.text_representation)
                   @@ ("agent_id" :> Unwrap(parsed))
                   @@ ("agent_xml" :>
                          agent_list[Unwrap(parsed) + 1].xml.text_representation)
                   @@ args,
          list |-> list]

\* The rest of handle_command_and_agent once advance has returned.
ResolvedCommand(adv, agent_list, args) ==
    IF ~adv.ok THEN Panicked("CommandStreamExhausted")
    ELSE ResolvedAgent(adv.list, adv.result, adv.list.commands[adv.result + 1],
                       AgentIdOf(adv.list.commands[adv.result + 1]),
                       agent_list, args)

\* The closure handle_command_and_agent: resolves the next command of the
\* entry's category and its agent, and records both in args.
handle_command_and_agent(command_list, metadata_category, command_name, agent_list, args) ==
    ResolvedCommand(advance(command_list, metadata_category, command_name),
                    agent_list, args)

\* The tuple the classification returns, with the catalogues and the bank
\* counter as it leaves them.
Classified(process_name, thread_name, name, args, color, rd, wr, mce, ple, bank) ==
    [err |-> "", process_name |-> process_name, thread_name |-> thread_name,
     name |-> name, args |-> args, color |-> color,
     dma_rd_commands |-> rd, dma_wr_commands |-> wr,
     mce_commands |-> mce, ple_commands |-> ple, mce_bank |-> bank]

\* &command_xml.child_element_values.get("DMA_CMD").unwrap()[2..] parsed in
\* base 16 and masked with 0b111.
HardwareIdOf(command_xml) ==
    IF "DMA_CMD" \in DOMAIN command_xml.child_element_values
    THEN HardwareId(command_xml.child_element_values["DMA_CMD"])
    ELSE None

\* A variant of NextBank that never leaves the bank it is on.
NextBankStuck(bank) == bank

\* *mce_bank = (*mce_bank + 1) % 2
NextBank(bank) == (bank + 1) % 2

\* The arms of the match for the categories backed by a catalogue, each
\* given what handle_command_and_agent returned (h).

FirmwareDmaReadSetup(h, agent_list, wr, mce, ple, bank) ==
    IF h.err # "" THEN h
    ELSE Classified("c) NCU MCU", "d) DMA stripe setup",
                    agent_list[h.agent_id + 1].xml.name,
                    ("agent_type" :> agent_list[h.agent_id + 1].xml.name) @@ h.args,
                    ColorOf(h.agent_id), h.list, wr, mce, ple, bank)

DmaReadPlaced(h, agent_type, hardware_id, wr, mce, ple, bank) ==
    IF hardware_id = None THEN Panicked("Panic")
    ELSE Classified("d) DMA", "a) DMA Load " \o ToString(Unwrap(hardware_id)),
                    agent_type,
                    ("hardware_id" :> Unwrap(hardware_id))
                    @@ ("agent_type" :> agent_type) @@ h.args,
                    ColorOf(h.agent_id), h.list, wr, mce, ple, bank)

FirmwareDmaRead(h, agent_list, wr, mce, ple, bank) ==
    IF h.err # "" THEN h
    ELSE DmaReadPlaced(h, agent_list[h.agent_id + 1].xml.name,
                       HardwareIdOf(h.command_xml), wr, mce, ple, bank)

FirmwareDmaWriteSetup(h, rd, mce, ple, bank) ==
    IF h.err # "" THEN h
    ELSE Classified("c) NCU MCU", "d) DMA stripe setup", "OFM_STREAMER",
                    h.args, ColorOf(h.agent_id), rd, h.list, mce, ple, bank)

DmaWritePlaced(h, hardware_id, rd, mce, ple, bank) ==
    IF hardware_id = None THEN Panicked("Panic")
    ELSE Classified("d) DMA", "a) DMA Save " \o ToString(Unwrap(hardware_id)),
                    "OFM_STREAMER",
                    ("hardware_id" :> Unwrap(hardware_id)) @@ h.args,
                    ColorOf(h.agent_id), rd, h.list, mce, ple, bank)

FirmwareDmaWrite(h, rd, mce, ple, bank) ==
    IF h.err # "" THEN h
    ELSE DmaWritePlaced(h, HardwareIdOf(h.command_xml), rd, mce, ple, bank)

FirmwareMceStripeSetup(h, rd, wr, ple, bank) ==
    IF h.err # "" THEN h
    ELSE Classified("c) NCU MCU", "c) MCE stripe setup", "MCE stripe setup",
                    h.args, ColorOf(h.agent_id), rd, wr, h.list, ple, bank)

FirmwareMceStripe(h, rd, wr, ple, bank) ==
    IF h.err # "" THEN h
    ELSE IF "MCE_OP_MODE" \notin DOMAIN h.agent_xml.child_element_values
    THEN Panicked("Panic")
    ELSE Classified("f) MCE", "a) MCE bank " \o ToString(NextBank(bank)),
                    h.agent_xml.child_element_values["MCE_OP_MODE"],
                    h.args, ColorOf(h.agent_id), rd, wr, h.list, ple,
                    NextBank(bank))

FirmwarePleStripeSetup(h, rd, wr, mce, bank) ==
    IF h.err # "" THEN h
    ELSE Classified("c) NCU MCU", "c) PLE stripe setup", "PLE stripe setup",
                    h.args, ColorOf(h.agent_id), rd, wr, mce, h.list, bank)

FirmwarePleStripe(h, rd, wr, mce, bank) ==
    IF h.err # "" THEN h
    ELSE IF "PLE_KERNEL_ID" \notin DOMAIN h.agent_xml.child_element_values
    THEN Panicked("Panic")
    ELSE Classified("g) PLE", "a) PLE",
                    h.agent_xml.child_element_values["PLE_KERNEL_ID"],
                    h.args, ColorOf(h.agent_id), rd, wr, mce, h.list, bank)

FirmwareUdma(h, rd, wr, mce, bank) ==
    IF h.err # "" THEN h
    ELSE Classified("e) UDMA", "a) UDMA", "UDMA",
                    h.args, ColorOf(h.agent_id), rd, wr, mce, h.list, bank)

\* A variant of FirmwareLabel that leaves the colour empty.
FirmwareLabelUncoloured(entry, args, rd, wr, mce, ple, bank) ==
    IF "metadata" \notin DOMAIN entry THEN Panicked("Panic")
    ELSE Classified("c) NCU MCU", "g) LABELS", entry.metadata.label,
                    ("label" :> entry.metadata.label) @@ args, "",
                    rd, wr, mce, ple, bank)

FirmwareLabel(entry, args, rd, wr, mce, ple, bank) ==
    IF "metadata" \notin DOMAIN entry THEN Panicked("Panic")
    ELSE Classified("c) NCU MCU", "g) LABELS", entry.metadata.label,
                    ("label" :> entry.metadata.label) @@ args, COLORS[1],
                    rd, wr, mce, ple, bank)

\* A variant of UnknownCategoryArm that places the event on a default row
\* instead of panicking.
UnknownCategoryPlaced(args, rd, wr, mce, ple, bank) ==
    Classified("c) NCU MCU", "a) Events", "Unknown", args, "", rd, wr, mce, ple, bank)

\* x => panic!("Unknown metadata category: {x}")
UnknownCategoryArm(args, rd, wr, mce, ple, bank) ==
    Panicked("UnknownEventCategory")

\* The match on metadata_category; args holds the "entry" key.
ClassifyCategory(entry, metadata_category, args, agent_list, rd, wr, mce, ple, bank) ==
    CASE metadata_category = "FirmwareInference" ->
            Classified("b) Command Stream", "a) Inference", "Inference", args, "",
                       rd, wr, mce, ple, bank)
      [] metadata_category = "FirmwareUpdateProgress" ->
            Classified("c) NCU MCU", "a) Events", "UpdateProgress", args, "",
                       rd, wr, mce, ple, bank)
      [] metadata_category = "FirmwareWfe" ->
            Classified("c) NCU MCU", "a) Events", "WFE", args, "",
                       rd, wr, mce, ple, bank)
      [] metadata_category = "FirmwareDmaReadSetup" ->
            FirmwareDmaReadSetup(
                handle_command_and_agent(rd, metadata_category, "DMA_COMMAND",
                                         agent_list, args),
                agent_list, wr, mce, ple, bank)
      [] metadata_category = "FirmwareDmaRead" ->
            FirmwareDmaRead(
                handle_command_and_agent(rd, metadata_category, "DMA_COMMAND",
                                         agent_list, args),
                agent_list, wr, mce, ple, bank)
      [] metadata_category = "FirmwareDmaWriteSetup" ->
            FirmwareDmaWriteSetup(
                handle_command_and_agent(wr, metadata_category, "DMA_COMMAND",
                                         agent_list, args),
                rd, mce, ple, bank)
      [] metadata_category = "FirmwareDmaWrite" ->
            FirmwareDmaWrite(
                handle_command_and_agent(wr, metadata_category, "DMA_COMMAND",
                                         agent_list, args),
                rd, mce, ple, bank)
      [] metadata_category = "FirmwareMceStripeSetup" ->
            FirmwareMceStripeSetup(
                handle_command_and_agent(mce, metadata_category,
                                         "PROGRAM_MCE_STRIPE_COMMAND",
                                         agent_list, args),
                rd, wr, ple, bank)
      [] metadata_category = "FirmwareMceStripe" ->
            FirmwareMceStripe(
                handle_command_and_agent(mce, metadata_category,
                                         "START_MCE_STRIPE_COMMAND",
                                         agent_list, args),
                rd, wr, ple, bank)
      [] metadata_category = "FirmwarePleStripeSetup" ->
            FirmwarePleStripeSetup(
                handle_command_and_agent(ple, metadata_category,
                                         "START_PLE_STRIPE_COMMAND",
                                         agent_list, args),
                rd, wr, mce, bank)
      [] metadata_category = "FirmwarePleStripe" ->
            FirmwarePleStripe(
                handle_command_and_agent(ple, metadata_category,
                                         "START_PLE_STRIPE_COMMAND",
                                         agent_list, args),
                rd, wr, mce, bank)
      [] metadata_category = "FirmwareUdma" ->
            FirmwareUdma(
                handle_command_and_agent(ple, metadata_category,
                                         "LOAD_PLE_CODE_INTO_PLE_SRAM_COMMAND",
                                         agent_list, args),
                rd, wr, mce, bank)
      [] metadata_category = "FirmwareLabel" ->
            FirmwareLabel(entry, args, rd, wr, mce, ple, bank)
      [] metadata_category = "InferenceLifetime" ->
            Classified("a) Driver Library", "a) Inference", "Inference", args, "",
                       rd, wr, mce, ple, bank)
      [] metadata_category = "BufferLifetime" ->
            Classified("a) Driver Library", "b) Buffer " \o ToString(entry.id),
                       "Buffer " \o ToString(entry.id), args, "",
                       rd, wr, mce, ple, bank)
      [] OTHER -> UnknownCategoryArm(args, rd, wr, mce, ple, bank)

process_timeline_event_start_or_instant(entry, agent_list, rd, wr, mce, ple, bank) ==
    ClassifyCategory(entry, entry.metadata_category, ("entry" :> entry),
                     agent_list, rd, wr, mce, ple, bank)

\* A variant of process_counter_entry that stores the value under the key
\* "value".
process_counter_entry_value_key(entry, rd, wr, mce, ple, bank) ==
    Classified("z) Counters", "<unused>", entry.counter_name,
               ("value" :> entry.counter_value), "",
               rd, wr, mce, ple, bank)

\* process_counter_entry, as the tuple of a classification that leaves the
\* catalogues and the bank counter alone.
process_counter_entry(entry, rd, wr, mce, ple, bank) ==
    Classified("z) Counters", "<unused>", entry.counter_name,
               (entry.counter_name :> entry.counter_value), "",
               rd, wr, mce, ple, bank)

-----------------------------------------------------------------------------
(* process_entry: one entry of the profiling log. *)

\* Some(max(end_timestamp.unwrap_or(0), timestamp))
EndTimestampAfter(end_timestamp, timestamp) ==
    Some(Max2(IF IsSome(end_timestamp) THEN Unwrap(end_timestamp) ELSE 0, timestamp))

\* A variant of StartTimestampAfter that overwrites a start timestamp
\* already set.
StartTimestampOverwrite(start_timestamp, timestamp) == Some(timestamp)

\* if start_timestamp.is_none() { start_timestamp = Some(timestamp) }
StartTimestampAfter(start_timestamp, timestamp) ==
    IF start_timestamp = None THEN Some(timestamp) ELSE start_timestamp

\* A variant of chrome_ts that converts nanoseconds to microseconds.
chrome_ts_microseconds(timestamp) == timestamp \div 1000

\* let chrome_ts = timestamp: the timestamp is deliberately not converted.
chrome_ts(timestamp) == timestamp

\* The End branch once the in-progress entry (pid, tid, agent id) is found.
EndOfStarted(entry, started, in_progress, agent_list) ==
    [err |-> "",
     value |-> [ph |-> "E", ts |-> chrome_ts(entry.timestamp),
                pid |-> started[1], tid |-> started[2]],
     in_progress_events |-> in_progress,
     agents |->
         IF IsSome(started[3])
         THEN [agent_list EXCEPT ![Unwrap(started[3]) + 1].end_timestamp =
                   EndTimestampAfter(@, entry.timestamp)]
         ELSE agent_list]

\* The TimelineEventEnd branch: in_progress_events.get(id).unwrap().
process_entry_end(entry, in_progress, agent_list) ==
    IF entry.id \notin DOMAIN in_progress THEN Panicked("UnmatchedEndEvent")
    ELSE EndOfStarted(entry, in_progress[entry.id], in_progress, agent_list)

\* What process_entry leaves after the End branch returned e.
AfterEnd(e, pnames, tnames, rd, wr, mce, ple, bank) ==
    IF e.err # "" THEN e
    ELSE [err |-> "", value |-> e.value,
          in_progress_events |-> e.in_progress_events,
          process_names |-> pnames, thread_names |-> tnames,
          agents |-> e.agents,
          dma_rd_commands |-> rd, dma_wr_commands |-> wr,
          mce_commands |-> mce, ple_commands |-> ple, mce_bank |-> bank]

\* The phase letter of the record built for an entry that is not an End.
PhaseOf(entry_type) ==
    CASE entry_type = "TimelineEventStart" -> "B"
      [] entry_type = "TimelineEventInstant" -> "I"
      [] entry_type = "CounterSample" -> "C"

\* A variant of StartedAgent that also returns the agent an Instant
\* resolved.
StartedAgentOfAnyType(entry, args) ==
    IF "agent_id" \in DOMAIN args THEN Some(args["agent_id"]) ELSE None

\* The agent a Start resolved: args.get("agent_id"), for a Start only.
StartedAgent(entry, args) ==
    IF entry.type = "TimelineEventStart" /\ "agent_id" \in DOMAIN args
    THEN Some(args["agent_id"])
    ELSE None

\* The tail of process_entry for a classified entry with its pid and tid: the
\* two name maps, the JSON object, and for a Start the agent's start
\* timestamp and the in-progress entry.
Recorded(entry, c, pid, tid, agent_id_maybe, in_progress, pnames, tnames, agent_list) ==
    [err |-> "",
     value |-> [name |-> c.name, ph |-> PhaseOf(entry.type),
                ts |-> chrome_ts(entry.timestamp), pid |-> pid, tid |-> tid,
                args |-> c.args, cname |-> c.color],
     in_progress_events |->
         IF entry.type = "TimelineEventStart"
         THEN (entry.id :> <<pid, tid, agent_id_maybe>>) @@ in_progress
         ELSE in_progress,
     process_names |-> (pid :> c.process_name) @@ pnames,
     thread_names |-> (<<pid, tid>> :> c.thread_name) @@ tnames,
     agents |->
         IF IsSome(agent_id_maybe)
         THEN [agent_list EXCEPT ![Unwrap(agent_id_maybe) + 1].start_timestamp =
                   StartTimestampAfter(@, entry.timestamp)]
         ELSE agent_list,
     dma_rd_commands |-> c.dma_rd_commands,
     dma_wr_commands |-> c.dma_wr_commands,
     mce_commands |-> c.mce_commands,
     ple_commands |-> c.ple_commands,
     mce_bank |-> c.mce_bank]

\* What process_entry leaves after the classification returned c.
AfterClassified(entry, c, in_progress, pnames, tnames, agent_list) ==
    IF c.err # "" THEN c
    ELSE Recorded(entry, c, hash_string(c.process_name), hash_string(c.thread_name),
                  StartedAgent(entry, c.args), in_progress, pnames, tnames,
                  agent_list)

\* process_entry.  err = "" when the entry was converted; value is then the
\* JSON object returned and the other fields are the state it leaves.
process_entry(entry, in_progress, pnames, tnames, agent_list, rd, wr, mce, ple, bank) ==
    IF entry.type = "TimelineEventEnd"
    THEN AfterEnd(process_entry_end(entry, in_progress, agent_list),
                  pnames, tnames, rd, wr, mce, ple, bank)
    ELSE IF entry.type \in {"TimelineEventStart", "TimelineEventInstant"}
    THEN AfterClassified(entry,
             process_timeline_event_start_or_instant(entry, agent_list, rd, wr,
                                                     mce, ple, bank),
             in_progress, pnames, tnames, agent_list)
    ELSE IF entry.type = "CounterSample"
    THEN AfterClassified(entry,
             process_counter_entry(entry, rd, wr, mce, ple, bank),
             in_progress, pnames, tnames, agent_list)
    ELSE Panicked("UnknownEntryType")

-----------------------------------------------------------------------------
(* process_finalize. *)

\* The order in which a HashMap iterates its keys, given as integer codes.
\* The order depends on the map's randomly keyed hasher: seed selects one
\* order among the permutations of the keys.
IterationOrder(codes, seed) == Unrank(SortedSeq(codes), seed)

\* A (pid, tid) key as one integer, and back.
KeyCode(key) == key[1] * 10007 + key[2]
KeyOfCode(code) == <<code \div 10007, code % 10007>>

\* The keys of a map keyed by (pid, tid), in iteration order.
KeyIterationOrder(keys, seed) ==
    [i \in 1..Cardinality(keys) |->
        KeyOfCode(IterationOrder({KeyCode(k) : k \in keys}, seed)[i])]

AgentThreadName(agent_idx, agent) ==
    "b) Agent " \o Pad4(agent_idx) \o " (" \o agent.xml.name \o ")"

AgentEventName(agent_idx, agent) ==
    "Agent " \o ToString(agent_idx) \o " (" \o agent.xml.name \o ")"

\* The Begin record of an agent's lifetime.
AgentBegin(agent_idx, agent, pid, tid) ==
    [name |-> AgentEventName(agent_idx, agent), ph |-> "B",
     ts |-> Unwrap(agent.start_timestamp), pid |-> pid, tid |-> tid,
     args |-> [agent_xml |-> agent.xml.text_representation]]

\* A variant of AgentEnd that leaves the End at the Begin's timestamp.
AgentEndAtStart(begin_event, agent) == [begin_event EXCEPT !.ph = "E"]

\* begin_event.clone() with "ph" and "ts" replaced.
AgentEnd(begin_event, agent) ==
    [begin_event EXCEPT !.ph = "E", !.ts = Unwrap(agent.end_timestamp)]

RECURSIVE AgentLifetimes(_, _, _, _, _)
\* The loop over agents.iter().enumerate() from agent_idx on: appends the
\* Begin and End of every agent whose start_timestamp is set; the unwrap of
\* an unset end_timestamp panics.
AgentLifetimes(agent_list, agent_idx, pid, data, tnames) ==
    IF agent_idx >= Len(agent_list)
    THEN [err |-> "", data |-> data, thread_names |-> tnames]
    ELSE IF agent_list[agent_idx + 1].start_timestamp = None
    THEN AgentLifetimes(agent_list, agent_idx + 1, pid, data, tnames)
    ELSE IF agent_list[agent_idx + 1].end_timestamp = None
    THEN Panicked("Panic")
    ELSE AgentLifetimes(
             agent_list, agent_idx + 1, pid,
             data \o << AgentBegin(agent_idx, agent_list[agent_idx + 1], pid,
                            hash_string(AgentThreadName(agent_idx,
                                                        agent_list[agent_idx + 1]))),
                        AgentEnd(AgentBegin(agent_idx, agent_list[agent_idx + 1], pid,
                            hash_string(AgentThreadName(agent_idx,
                                                        agent_list[agent_idx + 1]))),
                            agent_list[agent_idx + 1]) >>,
             (<<pid, hash_string(AgentThreadName(agent_idx,
                                                 agent_list[agent_idx + 1]))>>
                 :> AgentThreadName(agent_idx, agent_list[agent_idx + 1]))
             @@ tnames)

\* A variant of MaxTimestamp that takes the timestamp of the first record.
FirstTimestamp(data) ==
    IF data = <<>> THEN None ELSE Some(data[1].ts)

\* data.iter().map(ts).max()
MaxTimestamp(data) ==
    IF data = <<>> THEN None ELSE Some(SeqMax([i \in 1..Len(data) |-> data[i].ts]))

\* A variant of EndBeforeBegin that never reports an inverted span.
EndBeforeBeginNever(end_ts, begin_ts) == FALSE

\* entry["ts"] < begin_events[key]["ts"]
EndBeforeBegin(end_ts, begin_ts) == end_ts < begin_ts

MapRemove(map, key) == [k \in (DOMAIN map) \ {key} |-> map[k]]

\* A variant of ValidateEntry where a second Begin on a key replaces the
\* first.
ValidateEntryKeepLast(entry, key, begin_events) ==
    IF entry.ph = "B"
    THEN [err |-> "", begin_events |-> (key :> entry) @@ begin_events]
    ELSE IF entry.ph = "E" /\ key \in DOMAIN begin_events
    THEN IF EndBeforeBegin(entry.ts, begin_events[key].ts)
         THEN Panicked("InvertedDuration")
         ELSE [err |-> "", begin_events |-> MapRemove(begin_events, key)]
    ELSE [err |-> "", begin_events |-> begin_events]

\* One step of the validation loop: the open Begin records after entry, or
\* the panic.
ValidateEntry(entry, key, begin_events) ==
    IF entry.ph = "B"
    THEN [err |-> "",
          begin_events |-> IF key \in DOMAIN begin_events
                           THEN begin_events
                           ELSE (key :> entry) @@ begin_events]
    ELSE IF entry.ph = "E" /\ key \in DOMAIN begin_events
    THEN IF EndBeforeBegin(entry.ts, begin_events[key].ts)
         THEN Panicked("InvertedDuration")
         ELSE [err |-> "", begin_events |-> MapRemove(begin_events, key)]
    ELSE [err |-> "", begin_events |-> begin_events]

RECURSIVE ValidateSpans(_, _, _)
\* The validation loop over data from position i on; v is the outcome of the
\* entries before i (the Begin records open so far per (pid, tid)).
ValidateSpans(data, i, v) ==
    IF v.err # "" \/ i > Len(data) THEN v
    ELSE ValidateSpans(data, i + 1,
                       ValidateEntry(data[i], <<data[i].pid, data[i].tid>>,
                                     v.begin_events))

\* begin_events as the validation loop leaves it (err set when it panics).
OpenBegins(data) == ValidateSpans(data, 1, [err |-> "", begin_events |-> EmptyMap])

NotEndedSuffix == " (NOT ENDED)"

\* The End record pushed for a Begin left in begin_events: built from the
\* map's copy of the Begin after that copy was renamed.
SynthesizedEnd(begin_event, max_timestamp) ==
    [[begin_event EXCEPT !.name = @ \o NotEndedSuffix]
        EXCEPT !.ph = "E", !.ts = Unwrap(max_timestamp)]

\* The loop over begin_events.values_mut(), in the map's iteration order.
SynthesizedEnds(begin_events, max_timestamp, seed) ==
    LET order == KeyIterationOrder(DOMAIN begin_events, seed)
    IN [i \in 1..Len(order) |-> SynthesizedEnd(begin_events[order[i]], max_timestamp)]

ProcessMetadata(pnames, seed) ==
    LET order == IterationOrder(DOMAIN pnames, seed)
    IN [i \in 1..Len(order) |->
           [name |-> "process_name", ph |-> "M", pid |-> order[i],
            args |-> [name |-> pnames[order[i]]]]]

ThreadMetadata(tnames, seed) ==
    LET order == KeyIterationOrder(DOMAIN tnames, seed)
    IN [i \in 1..Len(order) |->
           [name |-> "thread_name", ph |-> "M", pid |-> order[i][1],
            tid |-> order[i][2], args |-> [name |-> tnames[order[i]]]]]

\* data after the loop over begin_events (v is what the validation left).
WithSynthesizedEnds(data, v, seed) ==
    IF v.err # "" THEN v
    ELSE [err |-> "",
          data |-> data \o SynthesizedEnds(v.begin_events, MaxTimestamp(data), seed)]

\* The validation and the synthesized Ends, given the outcome a of the loop
\* over the agents.
AfterAgentLifetimes(a, seed) ==
    IF a.err # "" THEN a
    ELSE WithSynthesizedEnds(a.data, OpenBegins(a.data), seed)

\* The metadata appended to the records s of the earlier steps.
WithMetadata(s, pnames, tnames, seed_p, seed_t) ==
    IF s.err # "" THEN s
    ELSE [err |-> "",
          data |-> s.data \o ProcessMetadata(pnames, seed_p)
                          \o ThreadMetadata(tnames, seed_t),
          process_names |-> pnames,
          thread_names |-> tnames]

\* process_finalize after the loop over the agents returned a.
FinalizeFrom(a, pnames, seed_b, seed_p, seed_t) ==
    IF a.err # "" THEN a
    ELSE WithMetadata(AfterAgentLifetimes(a, seed_b), pnames, a.thread_names,
                      seed_p, seed_t)

\* A variant of process_finalize without the insert of the command stream's
\* process name.
process_finalize_unnamed(data, agent_list, pnames, tnames, seed_b, seed_p, seed_t) ==
    FinalizeFrom(AgentLifetimes(agent_list, 0, hash_string("b) Command Stream"),
                                data, tnames),
                 pnames, seed_b, seed_p, seed_t)

\* process_finalize with add_timeline_bars = false (the flag's default; true
\* panics as not implemented).  The three seeds are the iteration orders of
\* begin_events, process_names and thread_names.
process_finalize(data, agent_list, pnames, tnames, seed_b, seed_p, seed_t) ==
    FinalizeFrom(AgentLifetimes(agent_list, 0, hash_string("b) Command Stream"),
                                data, tnames),
                 (hash_string("b) Command Stream") :> "b) Command Stream") @@ pnames,
                 seed_b, seed_p, seed_t)

-----------------------------------------------------------------------------
(* The profiling entries a run may read. *)

CommandCategories ==
    {"FirmwareDmaReadSetup", "FirmwareDmaRead", "FirmwareDmaWriteSetup",
     "FirmwareDmaWrite", "FirmwareMceStripeSetup", "FirmwareMceStripe",
     "FirmwarePleStripeSetup", "FirmwarePleStripe", "FirmwareUdma"}

PlainCategories ==
    {"FirmwareInference", "FirmwareUpdateProgress", "FirmwareWfe", "FirmwareLabel",
     "InferenceLifetime", "BufferLifetime"}

\* A category the dispatch does not know.
UnknownCategory == "FirmwareBogus"

Categories == CommandCategories \cup PlainCategories \cup {UnknownCategory}

CounterNames == {"DmaNumReads", "MceStalls"}

StartShape(category) == [type |-> "TimelineEventStart", tag |-> category]
InstantShape(category) == [type |-> "TimelineEventInstant", tag |-> category]
EndShape == [type |-> "TimelineEventEnd", tag |-> ""]
CounterShape(name) == [type |-> "CounterSample", tag |-> name]
UnknownTypeShape == [type |-> "TimelineEventBogus", tag |-> ""]

\* Pairs of categories that share a catalogue, a row or nothing at all.
CategoryPairs ==
    { {"FirmwareDmaReadSetup", "FirmwareDmaRead"},
      {"FirmwareDmaWriteSetup", "FirmwareDmaWrite"},
      {"FirmwareDmaReadSetup", "FirmwareDmaWriteSetup"},
      {"FirmwareMceStripeSetup", "FirmwareMceStripe"},
      {"FirmwarePleStripeSetup", "FirmwarePleStripe"},
      {"FirmwarePleStripe", "FirmwareUdma"},
      {"FirmwareUpdateProgress", "FirmwareWfe"},
      {"FirmwareInference", "InferenceLifetime"},
      {"FirmwareMceStripe", "FirmwareWfe"},
      {"FirmwareDmaRead", "BufferLifetime"},
      {"FirmwareLabel", "FirmwareUdma"},
      {"FirmwareWfe", "FirmwareBogus"} }

\* The sets of entry shapes a profiling log is drawn from: each log mixes the
\* shapes of one of these sets.
Scenarios ==
    { {StartShape(c), InstantShape(c), EndShape} : c \in Categories }
    \cup { {StartShape(c) : c \in cp} \cup {EndShape} : cp \in CategoryPairs }
    \cup { {InstantShape(c) : c \in cp} \cup {StartShape("FirmwareMceStripe")} :
              cp \in { {"FirmwareMceStripe", "FirmwareMceStripeSetup"},
                       {"FirmwareDmaReadSetup", "FirmwareDmaRead"} } }
    \cup { {CounterShape(n) : n \in CounterNames}
              \cup {StartShape("FirmwareInference"), EndShape},
           {UnknownTypeShape, StartShape("BufferLifetime"), EndShape} }

TimelineEntry(type, timestamp, id, category) ==
    IF category = "FirmwareLabel"
    THEN [type |-> type, timestamp |-> timestamp, id |-> id,
          metadata_category |-> category, metadata |-> [label |-> "Conv1"]]
    ELSE [type |-> type, timestamp |-> timestamp, id |-> id,
          metadata_category |-> category]

\* The entries of one shape.
EntriesOfShape(shape) ==
    CASE shape.type = "TimelineEventStart" ->
            {TimelineEntry(shape.type, t, i, shape.tag) :
                t \in Timestamps, i \in EventIds}
      [] shape.type = "TimelineEventInstant" ->
            {TimelineEntry(shape.type, t, 1, shape.tag) : t \in Timestamps}
      [] shape.type = "CounterSample" ->
            {[type |-> shape.type, timestamp |-> t, counter_name |-> shape.tag,
              counter_value |-> 7] : t \in Timestamps}
      [] OTHER ->
            {[type |-> shape.type, timestamp |-> t, id |-> i] :
                t \in Timestamps, i \in EventIds}

InputEntries(shapes) == UNION {EntriesOfShape(shape) : shape \in shapes}

-----------------------------------------------------------------------------
(* The run: process_json's loop over the entries, then process_finalize and *)
(* main's write of the output.                                             *)

Init ==
    /\ agents = ParsedAgents
    /\ dma_rd_commands = CommandList(ParsedDmaRd)
    /\ dma_wr_commands = CommandList(ParsedDmaWr)
    /\ mce_commands = CommandList(ParsedMce)
    /\ ple_commands = CommandList(ParsedPle)
    /\ in_progress_events = EmptyMap
    /\ process_names = EmptyMap
    /\ thread_names = EmptyMap
    /\ mce_bank = 1
    /\ result = <<>>
    /\ output = None
    /\ entries = <<>>
    /\ kinds \in Scenarios
    /\ calls = <<>>
    /\ pc = "main"
    /\ err = ""
    /\ xml_events = <<>>
    /\ element_name_stack = <<>>
    /\ pending_elements_stack = <<>>

\* The state after process_entry returned r for entry: the push of the object
\* it returned, or the abort when it panicked.
Pushed(entry, r) ==
    /\ entries' = Append(entries, entry)
    /\ IF r.err = ""
       THEN /\ result' = Append(result, r.value)
            /\ in_progress_events' = r.in_progress_events
            /\ process_names' = r.process_names
            /\ thread_names' = r.thread_names
            /\ agents' = r.agents
            /\ dma_rd_commands' = r.dma_rd_commands
            /\ dma_wr_commands' = r.dma_wr_commands
            /\ mce_commands' = r.mce_commands
            /\ ple_commands' = r.ple_commands
            /\ mce_bank' = r.mce_bank
            /\ UNCHANGED <<pc, err>>
       ELSE /\ pc' = "aborted"
            /\ err' = r.err
            /\ UNCHANGED <<result, in_progress_events, process_names,
                           thread_names, agents, dma_rd_commands,
                           dma_wr_commands, mce_commands, ple_commands,
                           mce_bank>>

\* One iteration of process_json's loop: process_entry on the next entry and
\* the push of the object it returns.  A panic aborts the run.
ProcessEntry ==
    /\ pc = "main"
    /\ Len(entries) < MaxLog
    /\ \E entry \in InputEntries(kinds) :
         Pushed(entry,
                process_entry(entry, in_progress_events, process_names,
                              thread_names, agents, dma_rd_commands,
                              dma_wr_commands, mce_commands, ple_commands,
                              mce_bank))
    /\ UNCHANGED <<output, kinds, calls, xml_events, element_name_stack,
                   pending_elements_stack>>

\* A variant of Written that writes the records of the main pass when
\* process_finalize panicked.
WrittenEvenOnPanic(f) ==
    IF f.err = ""
    THEN /\ output' = Some(f.data)
         /\ process_names' = f.process_names
         /\ thread_names' = f.thread_names
         /\ pc' = "done"
         /\ UNCHANGED err
    ELSE /\ output' = Some(result)
         /\ pc' = "aborted"
         /\ err' = f.err
         /\ UNCHANGED <<process_names, thread_names>>

\* The state after process_finalize returned f: main writes the vector, or
\* the run aborted before anything was written.
Written(f) ==
    IF f.err = ""
    THEN /\ output' = Some(f.data)
         /\ process_names' = f.process_names
         /\ thread_names' = f.thread_names
         /\ pc' = "done"
         /\ UNCHANGED err
    ELSE /\ pc' = "aborted"
         /\ err' = f.err
         /\ UNCHANGED <<output, process_names, thread_names>>

\* The end of the entries: process_finalize, then main writes the vector it
\* returns.  A panic in process_finalize aborts the run before anything is
\* written.
Finalize ==
    /\ pc = "main"
    /\ \E seed_b \in 0..(NumSeeds - 1), seed_p \in 0..(NumSeeds - 1),
          seed_t \in 0..(NumSeeds - 1) :
         Written(process_finalize(result, agents, process_names, thread_names,
                                  seed_b, seed_p, seed_t))
    /\ UNCHANGED <<agents, dma_rd_commands, dma_wr_commands, mce_commands,
                   ple_commands, in_progress_events, mce_bank, result, entries,
                   kinds, calls, xml_events, element_name_stack,
                   pending_elements_stack>>

Next == ProcessEntry \/ Finalize

Spec == Init /\ [][Next]_vars

-----------------------------------------------------------------------------
(* CommandList::advance on its own: any sequence of calls, with any filter *)
(* and command name, on the four catalogues, the DMA read catalogue being  *)
(* any command list up to MaxCmds.                                         *)

AdvanceNames == {"DMA_COMMAND", "START_PLE_STRIPE_COMMAND"}
AdvanceFilters == {"FirmwareDmaReadSetup", "FirmwareDmaRead"}
CatalogueNames == {"dma_rd", "dma_wr", "mce", "ple"}

GeneratedCommandLists ==
    UNION { { [i \in 1..n |-> Command(names[i], <<"0">>, <<"0", "x", "0">>, names[i])] :
                names \in [1..n -> AdvanceNames] } : n \in 0..MaxCmds }

InitAdvance ==
    /\ agents = ParsedAgents
    /\ dma_rd_commands \in {CommandList(c) : c \in GeneratedCommandLists}
    /\ dma_wr_commands = CommandList(ParsedDmaWr)
    /\ mce_commands = CommandList(ParsedMce)
    /\ ple_commands = CommandList(ParsedPle)
    /\ in_progress_events = EmptyMap
    /\ process_names = EmptyMap
    /\ thread_names = EmptyMap
    /\ mce_bank = 1
    /\ result = <<>>
    /\ output = None
    /\ entries = <<>>
    /\ kinds = {}
    /\ calls = <<>>
    /\ pc = "calls"
    /\ err = ""
    /\ xml_events = <<>>
    /\ element_name_stack = <<>>
    /\ pending_elements_stack = <<>>

\* The catalogue of the given name, in the current state.
Catalogue(which) ==
    CASE which = "dma_rd" -> dma_rd_commands
      [] which = "dma_wr" -> dma_wr_commands
      [] which = "mce" -> mce_commands
      [] which = "ple" -> ple_commands

\* The state after advance returned adv for a call on catalogue which.
Advanced(which, filter_id, command_name, before, adv) ==
    /\ calls' = Append(calls, [which |-> which, filter_id |-> filter_id,
                               command_name |-> command_name,
                               before |-> before.current_idx_per_filter,
                               ok |-> adv.ok, result |-> adv.result])
    /\ IF adv.ok
       THEN /\ dma_rd_commands' = IF which = "dma_rd" THEN adv.list ELSE dma_rd_commands
            /\ dma_wr_commands' = IF which = "dma_wr" THEN adv.list ELSE dma_wr_commands
            /\ mce_commands' = IF which = "mce" THEN adv.list ELSE mce_commands
            /\ ple_commands' = IF which = "ple" THEN adv.list ELSE ple_commands
            /\ UNCHANGED <<pc, err>>
       ELSE /\ pc' = "aborted"
            /\ err' = "CommandStreamExhausted"
            /\ UNCHANGED <<dma_rd_commands, dma_wr_commands, mce_commands,
                           ple_commands>>

\* One call of advance.
AdvanceCall ==
    /\ pc = "calls"
    /\ Len(calls) < MaxCalls
    /\ \E which \in CatalogueNames, filter_id \in AdvanceFilters,
          command_name \in AdvanceNames :
         Advanced(which, filter_id, command_name, Catalogue(which),
                  advance(Catalogue(which), filter_id, command_name))
    /\ UNCHANGED <<agents, in_progress_events, process_names, thread_names,
                   mce_bank, result, output, entries, kinds, xml_events,
                   element_name_stack, pending_elements_stack>>

NextAdvance == AdvanceCall

SpecAdvance == InitAdvance /\ [][NextAdvance]_vars

-----------------------------------------------------------------------------
(* Vocabulary of the properties. *)

IsStart(e) == e.type = "TimelineEventStart"
IsInstant(e) == e.type = "TimelineEventInstant"
IsEnd(e) == e.type = "TimelineEventEnd"

\* A Start or Instant of the given category.
IsEventOf(e, category) ==
    (IsStart(e) \/ IsInstant(e)) /\ e.metadata_category = category

\* The catalogue a command-backed category draws from and the command name
\* it expects there.
CatalogueOfCategory(category) ==
    CASE category \in {"FirmwareDmaReadSetup", "FirmwareDmaRead"} -> "dma_rd"
      [] category \in {"FirmwareDmaWriteSetup", "FirmwareDmaWrite"} -> "dma_wr"
      [] category \in {"FirmwareMceStripeSetup", "FirmwareMceStripe"} -> "mce"
      [] category \in {"FirmwarePleStripeSetup", "FirmwarePleStripe",
                       "FirmwareUdma"} -> "ple"

ExpectedCommandName(category) ==
    CASE category \in {"FirmwareDmaReadSetup", "FirmwareDmaRead",
                       "FirmwareDmaWriteSetup", "FirmwareDmaWrite"} -> "DMA_COMMAND"
      [] category = "FirmwareMceStripeSetup" -> "PROGRAM_MCE_STRIPE_COMMAND"
      [] category = "FirmwareMceStripe" -> "START_MCE_STRIPE_COMMAND"
      [] category \in {"FirmwarePleStripeSetup", "FirmwarePleStripe"} ->
            "START_PLE_STRIPE_COMMAND"
      [] category = "FirmwareUdma" -> "LOAD_PLE_CODE_INTO_PLE_SRAM_COMMAND"

\* The 0-based indices of the commands of the given name.
MatchingIndices(commands, name) ==
    {i \in 0..(Len(commands) - 1) : commands[i + 1].name = name}

\* The number of entries among the first i that are Starts or Instants of
\* the category.
EventsOfUpTo(category, i) ==
    Cardinality({j \in 1..i : IsEventOf(entries[j], category)})

-----------------------------------------------------------------------------
(* C1: for every command-backed category and every N, the N-th Start or   *)
(* Instant of that category in the log resolves to the index of the N-th   *)
(* command with the category's expected name in the category's catalogue,  *)
(* in descriptor-stream order, whatever entries are interleaved.           *)
C1_NthEventResolvesNthCommand ==
    \A i \in 1..Len(result) :
      \A category \in CommandCategories :
        IsEventOf(entries[i], category) =>
          LET matching == MatchingIndices(
                              Catalogue(CatalogueOfCategory(category)).commands,
                              ExpectedCommandName(category))
              idx == result[i].args["command_idx"]
          IN /\ idx \in matching
             /\ Cardinality({m \in matching : m <= idx})
                  = EventsOfUpTo(category, i)

\* Two categories of one catalogue interleaved, the second event of one of
\* them resolved past a command of another name.
C1_Witness ==
    /\ Len(result) = 3
    /\ IsEventOf(entries[1], "FirmwareDmaRead")
    /\ IsEventOf(entries[2], "FirmwareDmaReadSetup")
    /\ IsEventOf(entries[3], "FirmwareDmaRead")
    /\ result[3].args["command_idx"] = 2

-----------------------------------------------------------------------------
(* C2: a successful advance(filter, command_name) returns the smallest     *)
(* index at or after the filter's cursor (0 for a filter never used) whose *)
(* command has that name, and leaves the filter's cursor one past it.      *)
C2_AdvanceReturnsFirstMatch ==
    \A k \in 1..Len(calls) :
      calls[k].ok =>
        LET c == calls[k]
            start == IF c.filter_id \in DOMAIN c.before
                     THEN c.before[c.filter_id] ELSE 0
            candidates == {i \in MatchingIndices(Catalogue(c.which).commands,
                                                 c.command_name) : i >= start}
        IN /\ c.result \in candidates
           /\ \A i \in candidates : c.result <= i
           /\ k = Len(calls) =>
                Catalogue(c.which).current_idx_per_filter[c.filter_id]
                  = c.result + 1

\* A call on a used filter that skipped a command of another name.
C2_Witness ==
    /\ Len(calls) >= 2
    /\ calls[Len(calls)].ok
    /\ calls[Len(calls)].filter_id \in DOMAIN calls[Len(calls)].before
    /\ calls[Len(calls)].result > calls[Len(calls)].before[calls[Len(calls)].filter_id]

-----------------------------------------------------------------------------
(* C3: over any sequence of advance calls a filter's cursor never          *)
(* decreases and never exceeds the number of commands, and the indices     *)
(* returned for one filter of a catalogue are strictly increasing.         *)
C3_CursorsMonotonic ==
    /\ \A which \in CatalogueNames :
         \A f \in DOMAIN Catalogue(which).current_idx_per_filter :
           /\ Catalogue(which).current_idx_per_filter[f]
                <= Len(Catalogue(which).commands)
           /\ \A k \in 1..Len(calls) :
                (calls[k].which = which /\ f \in DOMAIN calls[k].before) =>
                   calls[k].before[f] <= Catalogue(which).current_idx_per_filter[f]
    /\ \A j, k \in 1..Len(calls) :
         (j < k /\ calls[j].which = calls[k].which) =>
            /\ \A f \in DOMAIN calls[j].before :
                 f \in DOMAIN calls[k].before
                 /\ calls[j].before[f] <= calls[k].before[f]
            /\ (calls[j].filter_id = calls[k].filter_id
                /\ calls[j].ok /\ calls[k].ok) =>
                  calls[j].result < calls[k].result

\* One filter called three times with success on one catalogue.
C3_Witness ==
    /\ Len(calls) = 3
    /\ \A k \in 1..3 : calls[k].ok /\ calls[k].which = "dma_rd"
                       /\ calls[k].filter_id = "FirmwareDmaRead"
    /\ dma_rd_commands.current_idx_per_filter["FirmwareDmaRead"] = 3

-----------------------------------------------------------------------------
(* C4: when the log holds more Starts or Instants of a command-backed     *)
(* category than the category's catalogue holds commands of the expected   *)
(* name, the run aborts with CommandStreamExhausted exactly at the first   *)
(* excess event: the events before it are converted.                       *)
C4_ExhaustedAtFirstExcess ==
    \A category \in CommandCategories :
      LET available == Cardinality(MatchingIndices(
                           Catalogue(CatalogueOfCategory(category)).commands,
                           ExpectedCommandName(category)))
          requested == EventsOfUpTo(category, Len(entries))
          last_is_category ==
              entries # <<>> /\ IsEventOf(entries[Len(entries)], category)
      IN /\ requested > available =>
              /\ pc = "aborted"
              /\ err = "CommandStreamExhausted"
              /\ last_is_category
              /\ requested = available + 1
              /\ Len(result) = Len(entries) - 1
         /\ (pc = "aborted" /\ err = "CommandStreamExhausted" /\ last_is_category)
              => requested = available + 1

\* Two events converted and the third of the same category aborted.
C4_Witness ==
    /\ pc = "aborted"
    /\ err = "CommandStreamExhausted"
    /\ Len(result) = 2
    /\ \A i \in 1..3 : IsEventOf(entries[i], "FirmwareDmaWrite")

-----------------------------------------------------------------------------
(* C5: the cursors of distinct filters are independent.  Converting an    *)
(* event of a command-backed category changes only that category's cursor  *)
(* in its catalogue and leaves the other cursors, the command sequence and *)
(* the other three catalogues unchanged; so two categories that share a    *)
(* catalogue and an expected command name resolve their k-th events to the *)
(* same command index.                                                     *)
C5_StepFrame ==
    (Len(result') = Len(result) + 1) =>
      LET e == entries'[Len(entries')]
      IN \A category \in CommandCategories :
           IsEventOf(e, category) =>
             /\ \A which \in CatalogueNames \ {CatalogueOfCategory(category)} :
                  Catalogue(which)' = Catalogue(which)
             /\ Catalogue(CatalogueOfCategory(category))'.commands
                  = Catalogue(CatalogueOfCategory(category)).commands
             /\ LET before == Catalogue(CatalogueOfCategory(category))
                                  .current_idx_per_filter
                    after == Catalogue(CatalogueOfCategory(category))'
                                  .current_idx_per_filter
                IN /\ DOMAIN after = DOMAIN before \cup {category}
                   /\ \A f \in DOMAIN before : f # category => after[f] = before[f]

SharedFilters ==
    { <<"FirmwareDmaReadSetup", "FirmwareDmaRead">>,
      <<"FirmwareDmaWriteSetup", "FirmwareDmaWrite">>,
      <<"FirmwarePleStripeSetup", "FirmwarePleStripe">> }

C5_SameIndex ==
    \A pair \in SharedFilters :
      \A i, j \in 1..Len(result) :
        (/\ IsEventOf(entries[i], pair[1])
         /\ IsEventOf(entries[j], pair[2])
         /\ EventsOfUpTo(pair[1], i) = EventsOfUpTo(pair[2], j)) =>
           result[i].args["command_idx"] = result[j].args["command_idx"]

C5_FiltersIndependent == [][C5_StepFrame]_vars /\ []C5_SameIndex

\* The read cursor of one category is two events ahead of the other's, which
\* then resolves its first event to the first command.
C5_Witness ==
    /\ Len(result) = 3
    /\ IsEventOf(entries[1], "FirmwareDmaRead")
    /\ IsEventOf(entries[2], "FirmwareDmaRead")
    /\ IsEventOf(entries[3], "FirmwareDmaReadSetup")
    /\ result[3].args["command_idx"] = 0
    /\ dma_rd_commands.current_idx_per_filter["FirmwareDmaRead"] = 3
    /\ dma_rd_commands.current_idx_per_filter["FirmwareDmaReadSetup"] = 1

-----------------------------------------------------------------------------
(* Vocabulary of the properties about spans. *)

\* The records written by a completed run.
Out == Unwrap(output)

\* Entry j is an End of the id of the Start at i.
EndOfId(i, j) == IsEnd(entries[j]) /\ entries[j].id = entries[i].id

\* Entry j is a Start of the id of entry i.
StartOfId(i, j) == IsStart(entries[j]) /\ entries[j].id = entries[i].id

\* The Ends of the span the Start at i opens: the later Ends of its id, up to
\* the next Start of that id.
EndsOfSpan(i) ==
    {k \in (i + 1)..Len(entries) :
        /\ EndOfId(i, k)
        /\ \A m \in (i + 1)..(k - 1) : ~StartOfId(i, m)}

\* A Start of the id of the End at j is still open when the End is read: it
\* precedes j and no End of that id lies between the two.
OpenStartBefore(j) ==
    \E i \in 1..(j - 1) :
        /\ StartOfId(j, i)
        /\ \A k \in (i + 1)..(j - 1) : ~EndOfId(i, k)

SameRow(r1, r2) == r1.pid = r2.pid /\ r1.tid = r2.tid

\* The agents resolved by a converted entry of one of the given types.
AgentsResolvedBy(types) ==
    {result[i].args["agent_id"] :
        i \in {j \in 1..Len(result) :
                 /\ entries[j].type \in types
                 /\ "agent_id" \in DOMAIN result[j].args}}

\* Both timestamps of the agent are set, the start not after the end.
LifetimeSet(agent_id) ==
    /\ IsSome(agents[agent_id + 1].start_timestamp)
    /\ IsSome(agents[agent_id + 1].end_timestamp)
    /\ Unwrap(agents[agent_id + 1].start_timestamp)
         <= Unwrap(agents[agent_id + 1].end_timestamp)

\* The positions in Out of the Ends that process_finalize synthesized: the End
\* records after the main pass's records and the agents' Begin/End pairs.
SynthesizedPositions ==
    {k \in (Len(result)
            + 2 * Cardinality({a \in 1..Len(agents) :
                                  IsSome(agents[a].start_timestamp)})
            + 1)..Len(Out) :
        Out[k].ph = "E"}

\* The largest timestamp of the Begin, End, Instant and Counter records of Out.
OutMaxTimestamp ==
    SeqMax(SortedSeq({Out[k].ts :
                        k \in {j \in 1..Len(Out) :
                                 Out[j].ph \in {"B", "E", "I", "C"}}}))

-----------------------------------------------------------------------------
(* C6: for every Start that has a matching End (same id, later in the     *)
(* log), the output of a completed run holds exactly one End record for    *)
(* that span, with the process and thread identifiers of the Begin record  *)
(* written for the Start.                                                  *)
C6_ExactlyOneEndPerSpan ==
    pc = "done" =>
      \A i \in 1..Len(result) :
        (IsStart(entries[i]) /\ EndsOfSpan(i) # {}) =>
          /\ Cardinality({k \in EndsOfSpan(i) : Out[k].ph = "E"}) = 1
          /\ \A k \in EndsOfSpan(i) : SameRow(Out[k], Out[i])

-----------------------------------------------------------------------------
(* C7: an End whose id has no prior Start that is still open (never        *)
(* started, or already closed by an earlier End) aborts the run with       *)
(* UnmatchedEndEvent and writes no End record: it is the last entry read.  *)
C7_UnmatchedEndAborts ==
    \A j \in 1..Len(entries) :
      (IsEnd(entries[j]) /\ ~OpenStartBefore(j)) =>
        /\ pc = "aborted"
        /\ err = "UnmatchedEndEvent"
        /\ j = Len(entries)
        /\ Len(result) = j - 1

-----------------------------------------------------------------------------
-----------------------------------------------------------------------------
(* C9: for every Start with no matching End (same id) the output of a      *)
(* completed run holds exactly one synthesized End on the Begin's row, at  *)
(* the largest timestamp of the Begin, End, Instant and Counter records of *)
(* the output, also when other spans share the row.                        *)
C9_OneSynthesizedEndPerOpenStart ==
    pc = "done" =>
      \A i \in 1..Len(result) :
        (IsStart(entries[i])
         /\ ~\E j \in (i + 1)..Len(entries) : EndOfId(i, j)) =>
          /\ Cardinality({k \in SynthesizedPositions : SameRow(Out[k], Out[i])}) = 1
          /\ \A k \in SynthesizedPositions :
               SameRow(Out[k], Out[i]) => Out[k].ts = OutMaxTimestamp

-----------------------------------------------------------------------------
(* C10: every Begin record left unmatched at finalization (no later End on *)
(* its row) appears in the output of a completed run with its name         *)
(* extended by " (NOT ENDED)".                                             *)
C10_OpenBeginRenamed ==
    pc = "done" =>
      \A i \in 1..Len(result) :
        (result[i].ph = "B"
         /\ ~\E j \in (i + 1)..Len(result) :
               result[j].ph = "E" /\ SameRow(result[j], result[i])) =>
          Out[i].name = result[i].name \o NotEndedSuffix

-----------------------------------------------------------------------------
(* Vocabulary of the properties about aborts. *)

\* The Start that the End at j closes: the last Start of its id before j.
StartClosedBy(j) ==
    CHOOSE i \in 1..(j - 1) :
        /\ StartOfId(j, i)
        /\ \A m \in (i + 1)..(j - 1) : ~StartOfId(j, m)

\* The log read so far is regular but for Starts that are never ended and
\* Begins repeated on a row: every entry has a known type, every Start or
\* Instant a recognized category with a command left for it, every End a
\* Start of its id that is still open, and the timestamps never go back.
OnlyTruncated ==
    /\ \A j \in 1..Len(entries) :
         /\ IsStart(entries[j]) \/ IsInstant(entries[j]) \/ IsEnd(entries[j])
              \/ entries[j].type = "CounterSample"
         /\ (IsStart(entries[j]) \/ IsInstant(entries[j])) =>
               entries[j].metadata_category \in CommandCategories \cup PlainCategories
         /\ IsEnd(entries[j]) => OpenStartBefore(j)
         /\ j > 1 => entries[j - 1].timestamp <= entries[j].timestamp
    /\ \A category \in CommandCategories :
         EventsOfUpTo(category, Len(entries))
           <= Cardinality(MatchingIndices(
                  Catalogue(CatalogueOfCategory(category)).commands,
                  ExpectedCommandName(category)))

-----------------------------------------------------------------------------
(* C11: a run whose only irregularities are Starts that are never ended or *)
(* Begins repeated on a row before an End never aborts, also when the      *)
(* unended Start resolved an agent none of whose events ended.             *)
C11_TruncatedLogNeverAborts ==
    OnlyTruncated => pc # "aborted"

-----------------------------------------------------------------------------
(* C12: whenever an End carries a timestamp smaller than that of the Start *)
(* of its id, the run does not complete (it aborts with InvertedDuration), *)
(* whatever other spans share the row.                                     *)
C12_InvertedSpanNeverCompletes ==
    pc = "done" =>
      \A j \in 1..Len(entries) :
        (IsEnd(entries[j]) /\ OpenStartBefore(j)) =>
           entries[StartClosedBy(j)].timestamp <= entries[j].timestamp

-----------------------------------------------------------------------------
(* C13: the output is a function of the descriptor stream and the log: any *)
(* other run on the same input, whatever order its hash maps iterate in,   *)
(* writes the same sequence of records.                                    *)
C13_OutputDeterministic ==
    pc = "done" =>
      \A seed_b \in 0..(NumSeeds - 1), seed_p \in 0..(NumSeeds - 1),
         seed_t \in 0..(NumSeeds - 1) :
        Out = process_finalize(result, agents, process_names, thread_names,
                               seed_b, seed_p, seed_t).data

-----------------------------------------------------------------------------
(* The main pass on a command stream with more agents than the palette has *)
(* colours: the agents 0 to 5 above, then the agents 6 to 34, whose types   *)
(* repeat WEIGHTS, MCE_SCHEDULER, PLE_SCHEDULER.                           *)

LaterAgent(agent_id) ==
    CASE agent_id % 3 = 2 ->
            Agent(XmlElement("WEIGHTS", EmptyMap, "<WEIGHTS/>"))
      [] agent_id % 3 = 0 ->
            Agent(XmlElement("MCE_SCHEDULER", ("MCE_OP_MODE" :> "DEPTHWISE"),
                             "<MCE_SCHEDULER/>"))
      [] agent_id % 3 = 1 ->
            Agent(XmlElement("PLE_SCHEDULER", ("PLE_KERNEL_ID" :> "V8442"),
                             "<PLE_SCHEDULER/>"))

LongAgents == ParsedAgents \o [k \in 1..29 |-> LaterAgent(k + 5)]

LongDmaRd == <<
    Command("DMA_COMMAND", <<"2">>, <<"0", "x", "0", "9">>, "<DMA_COMMAND rd 0/>"),
    Command("DMA_COMMAND", <<"2", "9">>, <<"0", "x", "1", "A">>, "<DMA_COMMAND rd 1/>"),
    Command("DMA_COMMAND", <<"3", "2">>, <<"0", "x", "0", "3">>, "<DMA_COMMAND rd 2/>") >>

LongDmaWr == <<
    Command("DMA_COMMAND", <<"5">>, <<"0", "x", "2", "c">>, "<DMA_COMMAND wr 0/>"),
    Command("DMA_COMMAND", <<"2", "9">>, <<"0", "x", "0", "5">>, "<DMA_COMMAND wr 1/>") >>

LongMce == <<
    StripeCommand("PROGRAM_MCE_STRIPE_COMMAND", <<"3", "0">>, "<PROGRAM_MCE_STRIPE_COMMAND 0/>"),
    StripeCommand("START_MCE_STRIPE_COMMAND", <<"3", "0">>, "<START_MCE_STRIPE_COMMAND 1/>"),
    StripeCommand("PROGRAM_MCE_STRIPE_COMMAND", <<"3", "3">>, "<PROGRAM_MCE_STRIPE_COMMAND 2/>"),
    StripeCommand("START_MCE_STRIPE_COMMAND", <<"3", "3">>, "<START_MCE_STRIPE_COMMAND 3/>") >>

LongPle == <<
    StripeCommand("LOAD_PLE_CODE_INTO_PLE_SRAM_COMMAND", <<"3", "1">>, "<LOAD_PLE_CODE 0/>"),
    StripeCommand("START_PLE_STRIPE_COMMAND", <<"3", "1">>, "<START_PLE_STRIPE_COMMAND 1/>"),
    StripeCommand("START_PLE_STRIPE_COMMAND", <<"3", "4">>, "<START_PLE_STRIPE_COMMAND 2/>") >>

\* The logs of the events of one command-backed category.
CommandScenarios ==
    { {StartShape(c), InstantShape(c), EndShape} : c \in CommandCategories }

InitLong ==
    /\ agents = LongAgents
    /\ dma_rd_commands = CommandList(LongDmaRd)
    /\ dma_wr_commands = CommandList(LongDmaWr)
    /\ mce_commands = CommandList(LongMce)
    /\ ple_commands = CommandList(LongPle)
    /\ in_progress_events = EmptyMap
    /\ process_names = EmptyMap
    /\ thread_names = EmptyMap
    /\ mce_bank = 1
    /\ result = <<>>
    /\ output = None
    /\ entries = <<>>
    /\ kinds \in CommandScenarios
    /\ calls = <<>>
    /\ pc = "main"
    /\ err = ""
    /\ xml_events = <<>>
    /\ element_name_stack = <<>>
    /\ pending_elements_stack = <<>>

NextLong == ProcessEntry

SpecLong == InitLong /\ [][NextLong]_vars

\* The AGENT_ID field of the command that the converted entry i resolved.
AgentIdOfResolved(i) ==
    Unwrap(ParseUsize(
        Catalogue(CatalogueOfCategory(entries[i].metadata_category))
            .commands[result[i].args["command_idx"] + 1]
            .child_element_values["AGENT_ID"]))

-----------------------------------------------------------------------------
(* C14: the record of every event of a command-backed category has the     *)
(* palette colour at index (agent id mod palette size), the agent id being *)
(* the AGENT_ID field of the resolved command; the display name of a       *)
(* FirmwareDmaReadSetup or FirmwareDmaRead record is that agent's type.    *)
C14_ColourAndNameOfAgent ==
    \A i \in 1..Len(result) :
      \A category \in CommandCategories :
        IsEventOf(entries[i], category) =>
          /\ result[i].cname = COLORS[(AgentIdOfResolved(i) % 29) + 1]
          /\ category \in {"FirmwareDmaReadSetup", "FirmwareDmaRead"} =>
                result[i].name = agents[AgentIdOfResolved(i) + 1].xml.name

\* Agent 2 of type WEIGHTS gives the name WEIGHTS and the third colour; the
\* next event resolves agent 29 and wraps around to the first colour.
C14_Witness ==
    /\ Len(result) >= 2
    /\ IsEventOf(entries[1], "FirmwareDmaReadSetup")
    /\ IsEventOf(entries[2], "FirmwareDmaReadSetup")
    /\ result[1].args["agent_id"] = 2
    /\ result[1].name = "WEIGHTS"
    /\ result[1].cname = COLORS[3]
    /\ result[2].args["agent_id"] = 29
    /\ result[2].name = "WEIGHTS"
    /\ result[2].cname = COLORS[1]

-----------------------------------------------------------------------------
(* C15: a Start or Instant whose category is outside the recognized set    *)
(* aborts the run with UnknownEventCategory: it is the last entry read and *)
(* no record is written for it.                                            *)
C15_UnknownCategoryAborts ==
    \A j \in 1..Len(entries) :
      ((IsStart(entries[j]) \/ IsInstant(entries[j]))
       /\ entries[j].metadata_category \notin CommandCategories \cup PlainCategories) =>
        /\ pc = "aborted"
        /\ err = "UnknownEventCategory"
        /\ j = Len(entries)
        /\ Len(result) = j - 1

\* Two entries converted, then a Start of an unknown category aborts.
C15_Witness ==
    /\ pc = "aborted"
    /\ err = "UnknownEventCategory"
    /\ Len(entries) = 3
    /\ Len(result) = 2
    /\ IsEventOf(entries[1], "FirmwareWfe")
    /\ IsEnd(entries[2])
    /\ IsStart(entries[3])

-----------------------------------------------------------------------------
(* C16: no partial output.  Output is written only once the whole log has  *)
(* been converted and process_finalize has returned; a run that aborts,    *)
(* at any entry or in process_finalize, has written nothing.               *)
C16_WrittenState ==
    /\ output # None =>
         /\ pc = "done"
         /\ err = ""
         /\ Len(result) = Len(entries)
         /\ SubSeq(Out, 1, Len(result)) = result
    /\ pc = "aborted" => output = None

C16_WrittenOnce ==
    (output' # output) => (pc = "main" /\ pc' = "done" /\ output = None)

C16_NoPartialOutput == []C16_WrittenState /\ [][C16_WrittenOnce]_vars

\* Two entries converted, then process_finalize aborts with InvertedDuration
\* and nothing is written.
C16_Witness ==
    /\ pc = "aborted"
    /\ err = "InvertedDuration"
    /\ Len(result) = 2
    /\ Len(entries) = 2
    /\ output = None

-----------------------------------------------------------------------------
(* Vocabulary of the properties about Metadata records. *)

\* The positions in Out of the Metadata records of the given name.
MetadataPositions(name) ==
    {k \in 1..Len(Out) : Out[k].ph = "M" /\ Out[k].name = name}

\* The positions in Out of the Begin, End, Instant and Counter records.
RecordPositions == {k \in 1..Len(Out) : Out[k].ph \in {"B", "E", "I", "C"}}

-----------------------------------------------------------------------------
(* C17: in the output of a completed run every process id of a Begin, End, *)
(* Instant or Counter record has exactly one process_name Metadata record  *)
(* and every (process id, thread id) pair exactly one thread_name Metadata *)
(* record, each naming the label the id was hashed from, and the Metadata  *)
(* records come after all other records.                                   *)
C17_MetadataNamesEveryRow ==
    pc = "done" =>
      /\ \A k \in RecordPositions :
           /\ Cardinality({m \in MetadataPositions("process_name") :
                             Out[m].pid = Out[k].pid}) = 1
           /\ Cardinality({m \in MetadataPositions("thread_name") :
                             SameRow(Out[m], Out[k])}) = 1
      /\ \A m \in MetadataPositions("process_name") :
           hash_string(Out[m].args.name) = Out[m].pid
      /\ \A m \in MetadataPositions("thread_name") :
           hash_string(Out[m].args.name) = Out[m].tid
      /\ \A k \in 1..Len(Out) : \A m \in 1..Len(Out) :
           (Out[k].ph # "M" /\ Out[m].ph = "M") => k < m

\* A completed run with records of two processes and three rows: an agent's
\* lifetime and a span with its End.
C17_Witness ==
    /\ pc = "done"
    /\ Cardinality(MetadataPositions("process_name")) = 2
    /\ Cardinality(MetadataPositions("thread_name")) = 3
    /\ \E k \in RecordPositions : Out[k].ph = "E" /\ k <= Len(result)
    /\ \E k \in RecordPositions : Out[k].ph = "B" /\ k > Len(result)

-----------------------------------------------------------------------------
(* C18: after any prefix of the log the keys of the in-progress table are  *)
(* exactly the ids of the Starts of the prefix with no later End in the    *)
(* prefix: a Start inserts its id and the matching End removes it.         *)
C18_TableHoldsOpenSpans ==
    pc = "main" =>
      DOMAIN in_progress_events =
        {entries[i].id :
           i \in {k \in 1..Len(entries) :
                    /\ IsStart(entries[k])
                    /\ \A j \in (k + 1)..Len(entries) : ~EndOfId(k, j)}}

-----------------------------------------------------------------------------
(* Vocabulary of the properties about agent lifetimes. *)

\* The converted Starts that resolved the agent.
StartsOfAgent(agent_id) ==
    {i \in 1..Len(result) :
        /\ IsStart(entries[i])
        /\ "agent_id" \in DOMAIN result[i].args
        /\ result[i].args["agent_id"] = agent_id}

\* The converted Ends whose Start resolved the agent.
EndsOfAgent(agent_id) ==
    {j \in 1..Len(result) :
        IsEnd(entries[j]) /\ StartClosedBy(j) \in StartsOfAgent(agent_id)}

\* The smallest member of a non-empty set of positions.
FirstOf(positions) == CHOOSE i \in positions : \A k \in positions : i <= k

-----------------------------------------------------------------------------
(* C19: an agent's start_timestamp is the timestamp of the first Start in  *)
(* log order that resolved to it, never overwritten afterwards, and its    *)
(* end_timestamp is the largest timestamp of the Ends whose Start resolved *)
(* to it; each is unset while there is no such event.                      *)
C19_AgentLifetimeValues ==
    \A a \in 0..(Len(agents) - 1) :
      /\ agents[a + 1].start_timestamp =
           IF StartsOfAgent(a) = {} THEN None
           ELSE Some(entries[FirstOf(StartsOfAgent(a))].timestamp)
      /\ agents[a + 1].end_timestamp =
           IF EndsOfAgent(a) = {} THEN None
           ELSE Some(SeqMax(SortedSeq({entries[j].timestamp : j \in EndsOfAgent(a)})))

\* Agent 5 started at 2 and again at 1, then ended at 2: its start stays 2.
C19_Witness ==
    /\ Len(result) = 3
    /\ StartsOfAgent(5) = {1, 2}
    /\ entries[1].timestamp = 2
    /\ entries[2].timestamp = 1
    /\ EndsOfAgent(5) = {3}
    /\ agents[6].start_timestamp = Some(2)
    /\ agents[6].end_timestamp = Some(2)

-----------------------------------------------------------------------------
(* C20: the bank counter is always 0 or 1 and changes only when a          *)
(* FirmwareMceStripe Start or Instant is converted, where it flips; the    *)
(* k-th FirmwareMceStripe event is placed on row "a) MCE bank 0" for odd k *)
(* and "a) MCE bank 1" for even k, whatever is interleaved.                *)
C20_BankRows ==
    /\ mce_bank \in {0, 1}
    /\ \A i \in 1..Len(result) :
         IsEventOf(entries[i], "FirmwareMceStripe") =>
           /\ result[i].tid =
                hash_string(IF EventsOfUpTo("FirmwareMceStripe", i) % 2 = 1
                            THEN "a) MCE bank 0" ELSE "a) MCE bank 1")
           /\ thread_names[<<result[i].pid, result[i].tid>>] =
                (IF EventsOfUpTo("FirmwareMceStripe", i) % 2 = 1
                 THEN "a) MCE bank 0" ELSE "a) MCE bank 1")

C20_BankStep ==
    IF Len(result') = Len(result) + 1
       /\ IsEventOf(entries'[Len(entries')], "FirmwareMceStripe")
    THEN mce_bank' = 1 - mce_bank
    ELSE mce_bank' = mce_bank

C20_BankAlternates == []C20_BankRows /\ [][C20_BankStep]_vars

\* Two FirmwareMceStripe events with another event between them: the first
\* on bank 0, the second on bank 1.
C20_Witness ==
    /\ Len(result) = 3
    /\ IsEventOf(entries[1], "FirmwareMceStripe")
    /\ ~IsEventOf(entries[2], "FirmwareMceStripe")
    /\ IsEventOf(entries[3], "FirmwareMceStripe")
    /\ result[1].tid = hash_string("a) MCE bank 0")
    /\ result[3].tid = hash_string("a) MCE bank 1")
    /\ mce_bank = 1

-----------------------------------------------------------------------------
(* Runs over logs one entry longer, made of the Starts of one command-     *)
(* backed category and of Ends: two agents can be started and ended before *)
(* process_finalize runs.                                                  *)

MaxLifetimeLog == MaxLog + 1

LifetimeScenarios ==
    { {StartShape(c), EndShape} : c \in {"FirmwareDmaRead", "FirmwarePleStripe"} }

InitLifetimes ==
    /\ agents = ParsedAgents
    /\ dma_rd_commands = CommandList(ParsedDmaRd)
    /\ dma_wr_commands = CommandList(ParsedDmaWr)
    /\ mce_commands = CommandList(ParsedMce)
    /\ ple_commands = CommandList(ParsedPle)
    /\ in_progress_events = EmptyMap
    /\ process_names = EmptyMap
    /\ thread_names = EmptyMap
    /\ mce_bank = 1
    /\ result = <<>>
    /\ output = None
    /\ entries = <<>>
    /\ kinds \in LifetimeScenarios
    /\ calls = <<>>
    /\ pc = "main"
    /\ err = ""
    /\ xml_events = <<>>
    /\ element_name_stack = <<>>
    /\ pending_elements_stack = <<>>

\* One iteration of process_json's loop, on a log of up to MaxLifetimeLog
\* entries.
ProcessLifetimeEntry ==
    /\ pc = "main"
    /\ Len(entries) < MaxLifetimeLog
    /\ \E entry \in InputEntries(kinds) :
         Pushed(entry,
                process_entry(entry, in_progress_events, process_names,
                              thread_names, agents, dma_rd_commands,
                              dma_wr_commands, mce_commands, ple_commands,
                              mce_bank))
    /\ UNCHANGED <<output, kinds, calls, xml_events, element_name_stack,
                   pending_elements_stack>>

NextLifetimes == ProcessLifetimeEntry \/ Finalize

SpecLifetimes == InitLifetimes /\ [][NextLifetimes]_vars

\* The agents whose start_timestamp is set.
StartedAgents ==
    {a \in 0..(Len(agents) - 1) : IsSome(agents[a + 1].start_timestamp)}

\* The thread labels of the six agents' lifetimes.
AgentRowLabels ==
    << "b) Agent 0000 (IFM_STREAMER)", "b) Agent 0001 (PLE_LOADER)",
       "b) Agent 0002 (WEIGHTS)", "b) Agent 0003 (MCE_SCHEDULER)",
       "b) Agent 0004 (PLE_SCHEDULER)", "b) Agent 0005 (OFM_STREAMER)" >>

\* The positions in Out of the Begin, End, Instant and Counter records on the
\* row of the agent's lifetime.
AgentRow(a) ==
    {k \in RecordPositions :
        /\ Out[k].pid = hash_string("b) Command Stream")
        /\ Out[k].tid = hash_string(AgentRowLabels[a + 1])}

\* The position in Out of the Begin of the agent's lifetime: after the main
\* pass's records and the pairs of the started agents of smaller index.
AgentBeginPosition(a) ==
    Len(result) + 2 * Cardinality({b \in StartedAgents : b < a}) + 1

-----------------------------------------------------------------------------
(* C21: in the output of a completed run every agent whose start_timestamp *)
(* is set has exactly two records on the row "b) Agent <4-digit index>     *)
(* (<type>)" of process "b) Command Stream": a Begin at start_timestamp    *)
(* directly followed by an End at end_timestamp, the pairs following the   *)
(* main pass's records in agent-index order; an agent whose                *)
(* start_timestamp is unset has no record.                                 *)
C21_AgentLifetimeRecords ==
    pc = "done" =>
      \A a \in 0..(Len(agents) - 1) :
        IF a \in StartedAgents
        THEN /\ AgentRow(a) = {AgentBeginPosition(a), AgentBeginPosition(a) + 1}
             /\ Out[AgentBeginPosition(a)].ph = "B"
             /\ Out[AgentBeginPosition(a)].ts = Unwrap(agents[a + 1].start_timestamp)
             /\ Out[AgentBeginPosition(a) + 1].ph = "E"
             /\ Out[AgentBeginPosition(a) + 1].ts = Unwrap(agents[a + 1].end_timestamp)
             /\ thread_names[<<hash_string("b) Command Stream"),
                               hash_string(AgentRowLabels[a + 1])>>]
                  = AgentRowLabels[a + 1]
        ELSE AgentRow(a) = {}

\* A completed run that started agent 4 at 1 and then agent 1 at 2: the pair
\* of agent 1 precedes the pair of agent 4, and agents 0, 2, 3 and 5 have no
\* record.
C21_Witness ==
    /\ pc = "done"
    /\ StartedAgents = {1, 4}
    /\ agents[5].start_timestamp = Some(1)
    /\ agents[2].start_timestamp = Some(2)
    /\ agents[5].end_timestamp = Some(2)
    /\ AgentBeginPosition(1) = 5
    /\ AgentBeginPosition(4) = 7

-----------------------------------------------------------------------------
(* Runs over logs of the categories that resolve no command, by pairs that *)
(* share a row, a thread label only, or nothing.                           *)

RowScenarios ==
    { {StartShape(c) : c \in cp} \cup {EndShape} :
        cp \in { {"FirmwareUpdateProgress", "FirmwareWfe"},
                 {"FirmwareInference", "InferenceLifetime"},
                 {"FirmwareWfe", "BufferLifetime"} } }

InitRows ==
    /\ agents = ParsedAgents
    /\ dma_rd_commands = CommandList(ParsedDmaRd)
    /\ dma_wr_commands = CommandList(ParsedDmaWr)
    /\ mce_commands = CommandList(ParsedMce)
    /\ ple_commands = CommandList(ParsedPle)
    /\ in_progress_events = EmptyMap
    /\ process_names = EmptyMap
    /\ thread_names = EmptyMap
    /\ mce_bank = 1
    /\ result = <<>>
    /\ output = None
    /\ entries = <<>>
    /\ kinds \in RowScenarios
    /\ calls = <<>>
    /\ pc = "main"
    /\ err = ""
    /\ xml_events = <<>>
    /\ element_name_stack = <<>>
    /\ pending_elements_stack = <<>>

SpecRows == InitRows /\ [][Next]_vars

\* The number of records process_finalize validates: the main pass's and the
\* agents' pairs.
ValidatedLen == Len(result) + 2 * Cardinality(StartedAgents)

\* The End records on the row of record i among the records i+1..n of Out.
EndsOnRowBetween(i, n) ==
    {k \in (i + 1)..n : Out[k].ph = "E" /\ SameRow(Out[k], Out[i])}

\* Record i is a Begin read while no Begin of its row is open: every earlier
\* Begin of the row is followed by an End of the row before i.
KeptBegin(i) ==
    /\ Out[i].ph = "B"
    /\ \A j \in 1..(i - 1) :
         (Out[j].ph = "B" /\ SameRow(Out[j], Out[i])) => EndsOnRowBetween(j, i) # {}

\* Record i is a Begin read while an earlier Begin of its row is open.
DuplicateBegin(i) == Out[i].ph = "B" /\ ~KeptBegin(i)

-----------------------------------------------------------------------------
(* C22: a Begin read while another Begin of its (process id, thread id)    *)
(* key is open does not abort the run and is not kept: the next End of the *)
(* key is compared with the first Begin's timestamp and closes it, and     *)
(* when no End follows exactly one End is synthesized for the key, built   *)
(* from the first Begin.                                                   *)
C22_DuplicateBeginKeepsFirst ==
    pc = "done" =>
      /\ \A i \in 1..ValidatedLen :
           KeptBegin(i) =>
             IF EndsOnRowBetween(i, ValidatedLen) # {}
             THEN Out[FirstOf(EndsOnRowBetween(i, ValidatedLen))].ts >= Out[i].ts
             ELSE /\ \A m \in (i + 1)..ValidatedLen : ~KeptBegin(m) \/ ~SameRow(Out[m], Out[i])
                  /\ \E k \in SynthesizedPositions :
                       /\ Out[k] = [Out[i] EXCEPT !.name = @ \o " (NOT ENDED)",
                                                  !.ph = "E",
                                                  !.ts = OutMaxTimestamp]
                       /\ \A m \in SynthesizedPositions :
                            SameRow(Out[m], Out[i]) => m = k
      /\ \A k \in SynthesizedPositions :
           \E i \in 1..ValidatedLen :
             /\ KeptBegin(i)
             /\ SameRow(Out[i], Out[k])
             /\ EndsOnRowBetween(i, ValidatedLen) = {}

\* A completed run of two Begins on one row, the second earlier than the End
\* that follows: the End is not before the first Begin.
C22_Witness ==
    /\ pc = "done"
    /\ Len(result) = 3
    /\ KeptBegin(1)
    /\ DuplicateBegin(2)
    /\ Out[1].name # Out[2].name
    /\ Out[1].ts = 1
    /\ Out[2].ts = 2
    /\ EndsOnRowBetween(1, ValidatedLen) = {3}
    /\ Out[3].ts = 1
    /\ SynthesizedPositions = {}

-----------------------------------------------------------------------------
(* The main pass on its own: process_json's loop over any log of the       *)
(* scenarios, without process_finalize.                                    *)

NextMain == ProcessEntry

SpecMain == Init /\ [][NextMain]_vars

\* Entry e is a Start or an Instant of a category that resolves no command,
\* or a CounterSample.
IsUnattributed(e) ==
    \/ e.type = "CounterSample"
    \/ /\ e.type \in {"TimelineEventStart", "TimelineEventInstant"}
       /\ e.metadata_category \in PlainCategories

-----------------------------------------------------------------------------
(* C23, for every category that resolves no command: the record of a Start *)
(* or Instant of FirmwareInference, FirmwareUpdateProgress, FirmwareWfe,   *)
(* FirmwareLabel, InferenceLifetime or BufferLifetime, and of a            *)
(* CounterSample, has the empty colour.                                    *)
C23_UnattributedColourEmpty ==
    \A i \in 1..Len(result) :
      IsUnattributed(entries[i]) => result[i].cname = ""

(* C23, with FirmwareLabel apart: the record of a Start or Instant of      *)
(* FirmwareInference, FirmwareUpdateProgress, FirmwareWfe,                 *)
(* InferenceLifetime or BufferLifetime, and of a CounterSample, has the    *)
(* empty colour; the record of a FirmwareLabel has the first colour of the *)
(* palette.                                                                *)
C23_UnattributedColour ==
    \A i \in 1..Len(result) :
      IsUnattributed(entries[i]) =>
        result[i].cname =
          (IF entries[i].type # "CounterSample"
              /\ entries[i].metadata_category = "FirmwareLabel"
           THEN "thread_state_uninterruptible"
           ELSE "")

\* A FirmwareLabel Instant and a FirmwareLabel Start converted, with the
\* first colour of the palette.
C23_Witness ==
    /\ Len(result) = 2
    /\ IsInstant(entries[1])
    /\ IsStart(entries[2])
    /\ entries[1].metadata_category = "FirmwareLabel"
    /\ entries[2].metadata_category = "FirmwareLabel"
    /\ result[1].cname = "thread_state_uninterruptible"
    /\ result[2].cname = "thread_state_uninterruptible"

-----------------------------------------------------------------------------
(* Vocabulary of the properties about counters. *)

\* The positions of the converted CounterSample entries.
CounterPositions ==
    {i \in 1..Len(result) : entries[i].type = "CounterSample"}

\* The record of the CounterSample at i is a Counter record of process
\* "z) Counters" that carries the value in args under the counter's name.
CounterRecorded(i) ==
    /\ result[i].ph = "C"
    /\ result[i].pid = hash_string("z) Counters")
    /\ process_names[result[i].pid] = "z) Counters"
    /\ result[i].args = (entries[i].counter_name :> entries[i].counter_value)

-----------------------------------------------------------------------------
(* C24, with one row per counter name: every CounterSample yields one      *)
(* Counter record of process "z) Counters" with the value in args under    *)
(* the counter name; two samples have the same thread id exactly when they *)
(* have the same counter name.                                             *)
C24_CounterRowPerName ==
    /\ Len(result) = Len(entries) \/ Len(result) = Len(entries) - 1
    /\ \A i \in CounterPositions : CounterRecorded(i)
    /\ \A i \in CounterPositions : \A j \in CounterPositions :
         (result[i].tid = result[j].tid)
           <=> (entries[i].counter_name = entries[j].counter_name)

(* C24, with one row for all counters: every CounterSample yields one      *)
(* Counter record of process "z) Counters" with the value in args under    *)
(* the counter name, named by the counter name, on the thread labelled     *)
(* "<unused>" whatever the counter name.                                   *)
C24_CounterRecords ==
    /\ Len(result) = Len(entries) \/ Len(result) = Len(entries) - 1
    /\ \A i \in CounterPositions :
         /\ CounterRecorded(i)
         /\ result[i].name = entries[i].counter_name
         /\ result[i].tid = hash_string("<unused>")
         /\ thread_names[<<result[i].pid, result[i].tid>>] = "<unused>"

\* Samples of two counter names and a second sample of the first name, all
\* three on the same thread id.
C24_Witness ==
    /\ CounterPositions = {1, 2, 3}
    /\ entries[1].counter_name # entries[2].counter_name
    /\ entries[1].counter_name = entries[3].counter_name
    /\ result[1].tid = result[2].tid
    /\ result[1].name # result[2].name
    /\ result[1].args # result[2].args

-----------------------------------------------------------------------------
(* C25: converting an Instant or a CounterSample leaves the in-progress    *)
(* table and every agent's start_timestamp and end_timestamp as they were; *)
(* converting a CounterSample, an End, or a Start or Instant of a category *)
(* that resolves no command leaves the four catalogues' cursors and the    *)
(* bank counter as they were.                                              *)
C25_TableAndAgentsKept ==
    (entries'[Len(entries')].type \in {"TimelineEventInstant", "CounterSample"}) =>
      /\ in_progress_events' = in_progress_events
      /\ agents' = agents

C25_CursorsAndBankKept ==
    (\/ entries'[Len(entries')].type \in {"CounterSample", "TimelineEventEnd"}
     \/ /\ entries'[Len(entries')].type
             \in {"TimelineEventStart", "TimelineEventInstant"}
        /\ entries'[Len(entries')].metadata_category \in PlainCategories) =>
      /\ dma_rd_commands' = dma_rd_commands
      /\ dma_wr_commands' = dma_wr_commands
      /\ mce_commands' = mce_commands
      /\ ple_commands' = ple_commands
      /\ mce_bank' = mce_bank

C25_EntryFrame ==
    (Len(entries') = Len(entries) + 1) =>
      (C25_TableAndAgentsKept /\ C25_CursorsAndBankKept)

C25_MainPassFrame == [][C25_EntryFrame]_vars

\* A FirmwareDmaRead Start of agent 0 at 2, then a FirmwareDmaRead Instant
\* at 1 that resolved agent 2, then an End: agent 2 has no timestamp, the
\* table holds the Start's id only and the DMA read cursor is where the
\* Instant left it.
C25_Witness ==
    /\ Len(result) = 3
    /\ IsStart(entries[1]) /\ entries[1].timestamp = 2
    /\ IsInstant(entries[2]) /\ entries[2].timestamp = 1
    /\ IsEnd(entries[3])
    /\ entries[1].metadata_category = "FirmwareDmaRead"
    /\ entries[2].metadata_category = "FirmwareDmaRead"
    /\ result[2].args["agent_id"] = 2
    /\ agents[3].start_timestamp = None
    /\ agents[3].end_timestamp = None
    /\ agents[1].start_timestamp = Some(2)
    /\ DOMAIN in_progress_events = {entries[1].id}
    /\ dma_rd_commands.current_idx_per_filter["FirmwareDmaRead"] = 3

-----------------------------------------------------------------------------
(* Vocabulary of the properties about the order of the output. *)

\* The phase of the record of an entry of the given type.
PhaseOfType(type) ==
    CASE type = "TimelineEventStart" -> "B"
      [] type = "TimelineEventInstant" -> "I"
      [] type = "TimelineEventEnd" -> "E"
      [] type = "CounterSample" -> "C"

\* Record i of the sequence is the record of entry i: same timestamp, and
\* the phase of the entry's type.
RecordOfEntry(records, i) ==
    /\ records[i].ts = entries[i].timestamp
    /\ records[i].ph = PhaseOfType(entries[i].type)

-----------------------------------------------------------------------------
(* C26: the main pass holds one record per converted entry, in log order:  *)
(* record i has the timestamp of entry i unchanged and the phase Begin,    *)
(* Instant, End or Counter of the entry's type; in the output of a         *)
(* completed run these records come first, and every later record is an    *)
(* agent's lifetime record, a synthesized End or a Metadata record.        *)
C26_OneRecordPerEntryInOrder ==
    /\ pc \in {"main", "done"} => Len(result) = Len(entries)
    /\ pc = "aborted" => Len(result) \in {Len(entries) - 1, Len(entries)}
    /\ \A i \in 1..Len(result) : RecordOfEntry(result, i)
    /\ pc = "done" =>
         /\ Len(Out) >= Len(result)
         /\ \A i \in 1..Len(result) : RecordOfEntry(Out, i)
         /\ \A k \in (Len(result) + 1)..Len(Out) :
              \/ Out[k].ph = "M"
              \/ k \in SynthesizedPositions
              \/ \E a \in StartedAgents : k \in AgentRow(a)

\* A completed run of a CounterSample at 2, a Start at 1 and a CounterSample
\* at 1, followed by a synthesized End at 2 and Metadata records.
C26_Witness ==
    /\ pc = "done"
    /\ Len(result) = 3
    /\ Out[1].ph = "C" /\ Out[1].ts = 2
    /\ Out[2].ph = "B" /\ Out[2].ts = 1
    /\ Out[3].ph = "C" /\ Out[3].ts = 1
    /\ SynthesizedPositions = {4}
    /\ Out[4].ts = 2
    /\ Out[5].ph = "M"

-----------------------------------------------------------------------------
(* Vocabulary of the properties about logs in timestamp order. *)

\* The timestamps of the entries read so far never decrease.
NonDecreasingLog ==
    \A i \in 1..Len(entries) : \A j \in i..Len(entries) :
      entries[i].timestamp <= entries[j].timestamp

-----------------------------------------------------------------------------
(* C28: a run over a log whose timestamps never decrease does not abort    *)
(* with InvertedDuration, and in its output every End record (of the main  *)
(* pass, of an agent's lifetime, or synthesized) has a timestamp not       *)
(* smaller than that of every earlier Begin record of its (process id,     *)
(* thread id) key, also when spans overlap on the row.                     *)
C28_OrderedLogNeverInverted ==
    NonDecreasingLog =>
      /\ err # "InvertedDuration"
      /\ pc = "done" =>
           \A k \in RecordPositions : \A i \in 1..(k - 1) :
             (Out[k].ph = "E" /\ Out[i].ph = "B" /\ SameRow(Out[i], Out[k])) =>
               Out[k].ts >= Out[i].ts

\* A completed run over an ordered log with two overlapping spans on one
\* row, both of agent 5: the Begins at 1 and 2, one End at 2, and the
\* agent's lifetime from 1 to 2.
C28_Witness ==
    /\ pc = "done"
    /\ NonDecreasingLog
    /\ Len(result) = 3
    /\ Out[1].ph = "B" /\ Out[1].ts = 1
    /\ Out[2].ph = "B" /\ Out[2].ts = 2
    /\ Out[3].ph = "E" /\ Out[3].ts = 2
    /\ SameRow(Out[1], Out[2])
    /\ SameRow(Out[1], Out[3])
    /\ StartedAgents = {5}
    /\ Out[4].ph = "B" /\ Out[4].ts = 1
    /\ Out[5].ph = "E" /\ Out[5].ts = 2

-----------------------------------------------------------------------------
(* parse_command_stream: the loop over the events of the XML reader, one   *)
(* event per step, on any well-nested document with a single root.  Each   *)
(* event is on a line of its own, indented by its depth, so the row of an  *)
(* event is the number of events before it and the column of an opening    *)
(* tag is the number of elements open around it.                           *)

\* Most elements and most texts of a generated document.
MaxElements == 3
MaxTexts == 2

Containers ==
    {"AGENTS", "DMA_RD_COMMANDS", "DMA_WR_COMMANDS", "MCE_COMMANDS", "PLE_COMMANDS"}

\* The element names a generated document is drawn from.
XmlNameSets ==
    { {c, "CMD", "AGENT_ID"} : c \in Containers }
    \cup { {"AGENTS", "MCE_COMMANDS", "CMD"}, {"STREAM", "CMD", "AGENT_ID"} }

TextData == {"0", "1"}

PendingXmlElement(name, start_pos) ==
    [name |-> name, child_element_values |-> EmptyMap, start_pos |-> start_pos]

\* The lines start_pos.row..=end_pos.row, each without its first
\* start_pos.column characters and followed by a newline: kept as the rows
\* joined and the number of characters skipped.
TextOfLines(start_pos, end_pos) ==
    [lines |-> [k \in 1..(end_pos.row - start_pos.row + 1) |-> start_pos.row + k - 1],
     skipped |-> start_pos.column]

\* The closure finish_pending.
finish_pending(p, end_pos) ==
    XmlElement(p.name, p.child_element_values, TextOfLines(p.start_pos, end_pos))

\* element_name_stack.last()
LastName(names) == IF names = <<>> THEN None ELSE Some(names[Len(names)])

\* The number of events of the kind read so far.
EventCount(kind) ==
    Cardinality({k \in 1..Len(xml_events) : xml_events[k].kind = kind})

InitParse ==
    /\ agents = <<>>
    /\ dma_rd_commands = CommandList(<<>>)
    /\ dma_wr_commands = CommandList(<<>>)
    /\ mce_commands = CommandList(<<>>)
    /\ ple_commands = CommandList(<<>>)
    /\ in_progress_events = EmptyMap
    /\ process_names = EmptyMap
    /\ thread_names = EmptyMap
    /\ mce_bank = 1
    /\ result = <<>>
    /\ output = None
    /\ entries = <<>>
    /\ kinds \in XmlNameSets
    /\ calls = <<>>
    /\ pc = "parsing"
    /\ err = ""
    /\ xml_events = <<>>
    /\ element_name_stack = <<>>
    /\ pending_elements_stack = <<>>

\* What no event of the parser touches.
ParserFrame ==
    UNCHANGED <<in_progress_events, process_names, thread_names, mce_bank,
                result, output, entries, kinds, calls>>

\* XmlEvent::StartElement
StartElementEvent ==
    /\ pc = "parsing"
    /\ EventCount("StartElement") < MaxElements
    /\ xml_events = <<>> \/ element_name_stack # <<>>
    /\ \E name \in kinds :
         /\ xml_events' = Append(xml_events, [kind |-> "StartElement", name |-> name])
         /\ pending_elements_stack' =
                Append(pending_elements_stack,
                       PendingXmlElement(name, [row |-> Len(xml_events),
                                                column |-> Len(element_name_stack)]))
         /\ element_name_stack' = Append(element_name_stack, name)
    /\ UNCHANGED <<agents, dma_rd_commands, dma_wr_commands, mce_commands,
                   ple_commands, pc, err>>
    /\ ParserFrame

\* child_element_values.insert(field, data)
WithChildValue(pending, field, data) ==
    [pending EXCEPT !.child_element_values =
        (field :> data) @@ [k \in (DOMAIN @) \ {field} |-> @[k]]]

\* XmlEvent::Characters.  pending_elements_stack.get_mut(n - 2) is the
\* element around the one that holds the text.  With one open element n - 2
\* overflows: a build with overflow checks panics, a build without them
\* wraps to an index get_mut has no element for, and the text is dropped.
CharactersEvent ==
    /\ pc = "parsing"
    /\ pending_elements_stack # <<>>
    /\ EventCount("Characters") < MaxTexts
    /\ \E data \in TextData :
         /\ xml_events' = Append(xml_events, [kind |-> "Characters", data |-> data])
         /\ IF Len(pending_elements_stack) >= 2
            THEN /\ pending_elements_stack' =
                      [pending_elements_stack EXCEPT
                          ![Len(pending_elements_stack) - 1] =
                              WithChildValue(@, Unwrap(LastName(element_name_stack)),
                                             data)]
                 /\ UNCHANGED <<pc, err>>
            ELSE /\ \/ pc' = "aborted" /\ err' = "Panic"
                    \/ UNCHANGED <<pc, err>>
                 /\ UNCHANGED pending_elements_stack
    /\ UNCHANGED <<agents, dma_rd_commands, dma_wr_commands, mce_commands,
                   ple_commands, element_name_stack>>
    /\ ParserFrame

\* The pushes of the EndElement arm for a finished element, given the name
\* on top of element_name_stack after the pop.
Closed(element, enclosing) ==
    /\ agents' = IF enclosing = Some("AGENTS")
                 THEN Append(agents, Agent(element)) ELSE agents
    /\ dma_rd_commands' =
         IF enclosing = Some("DMA_RD_COMMANDS")
         THEN [dma_rd_commands EXCEPT !.commands = Append(@, element)]
         ELSE dma_rd_commands
    /\ dma_wr_commands' =
         IF enclosing = Some("DMA_WR_COMMANDS")
         THEN [dma_wr_commands EXCEPT !.commands = Append(@, element)]
         ELSE dma_wr_commands
    /\ mce_commands' =
         IF enclosing = Some("MCE_COMMANDS")
         THEN [mce_commands EXCEPT !.commands = Append(@, element)]
         ELSE mce_commands
    /\ ple_commands' =
         IF enclosing = Some("PLE_COMMANDS")
         THEN [ple_commands EXCEPT !.commands = Append(@, element)]
         ELSE ple_commands

\* XmlEvent::EndElement
EndElementEvent ==
    /\ pc = "parsing"
    /\ pending_elements_stack # <<>>
    /\ xml_events' = Append(xml_events, [kind |-> "EndElement"])
    /\ element_name_stack' =
         SubSeq(element_name_stack, 1, Len(element_name_stack) - 1)
    /\ pending_elements_stack' =
         SubSeq(pending_elements_stack, 1, Len(pending_elements_stack) - 1)
    /\ Closed(finish_pending(pending_elements_stack[Len(pending_elements_stack)],
                             [row |-> Len(xml_events)]),
              LastName(SubSeq(element_name_stack, 1, Len(element_name_stack) - 1)))
    /\ UNCHANGED <<pc, err>>
    /\ ParserFrame

\* XmlEvent::EndDocument: the loop ends and the five lists are returned.
EndDocumentEvent ==
    /\ pc = "parsing"
    /\ xml_events # <<>>
    /\ element_name_stack = <<>>
    /\ xml_events' = Append(xml_events, [kind |-> "EndDocument"])
    /\ pc' = "parsed"
    /\ UNCHANGED <<agents, dma_rd_commands, dma_wr_commands, mce_commands,
                   ple_commands, err, element_name_stack, pending_elements_stack>>
    /\ ParserFrame

NextParse ==
    StartElementEvent \/ CharactersEvent \/ EndElementEvent \/ EndDocumentEvent

SpecParse == InitParse /\ [][NextParse]_vars

-----------------------------------------------------------------------------
(* Vocabulary of the properties about the parser: the tree the events read *)
(* so far describe.                                                        *)

IsStartElement(k) == xml_events[k].kind = "StartElement"
IsEndElement(k) == xml_events[k].kind = "EndElement"
IsCharacters(k) == xml_events[k].kind = "Characters"

\* The number of elements open after the first k events.
DepthAfter(k) ==
    Cardinality({i \in 1..k : IsStartElement(i)})
    - Cardinality({i \in 1..k : IsEndElement(i)})

\* The opening event of the innermost element open after the first k events,
\* 0 when none is open.
InnermostOpenAt(k) ==
    IF DepthAfter(k) = 0 THEN 0
    ELSE CHOOSE p \in 1..k :
           /\ IsStartElement(p)
           /\ DepthAfter(p) = DepthAfter(k)
           /\ \A m \in p..k : DepthAfter(m) >= DepthAfter(p)

\* The opening event of the element immediately around the element opened at
\* i, 0 for the root.
EnclosingOf(i) == InnermostOpenAt(i - 1)

\* The opening event of the element closed by the End at k.
OpenOf(k) == InnermostOpenAt(k - 1)

\* The opening event of the immediate parent of the element that holds the
\* text at t, 0 when the text is held by the root.
OwnerOf(t) == EnclosingOf(InnermostOpenAt(t))

\* The texts held by a child named key of the element opened at i.
FieldTexts(i, key) ==
    {t \in 1..Len(xml_events) :
        /\ IsCharacters(t)
        /\ OwnerOf(t) = i
        /\ xml_events[InnermostOpenAt(t)].name = key}

\* The largest member of a non-empty set of positions.
LastOf(positions) == CHOOSE i \in positions : \A k \in positions : i >= k

\* The mapping of the element opened at i: for each child that holds a
\* text, the child's name mapped to the last text a child of that name held.
FieldsOf(i) ==
    [key \in {name \in kinds : FieldTexts(i, name) # {}} |->
        xml_events[LastOf(FieldTexts(i, key))].data]

\* The element closed by the End at k.
ElementClosedAt(k) ==
    XmlElement(xml_events[OpenOf(k)].name, FieldsOf(OpenOf(k)),
               [lines |-> [n \in 1..(k - OpenOf(k) + 1) |-> OpenOf(k) + n - 2],
                skipped |-> DepthAfter(OpenOf(k)) - 1])

\* The Ends of the elements whose immediate enclosing element has the name.
ClosedIn(container) ==
    {k \in 1..Len(xml_events) :
        /\ IsEndElement(k)
        /\ EnclosingOf(OpenOf(k)) # 0
        /\ xml_events[EnclosingOf(OpenOf(k))].name = container}

\* The elements closed immediately inside an element of the name, in closing
\* order.
ElementsClosedIn(container) ==
    [n \in 1..Cardinality(ClosedIn(container)) |->
        ElementClosedAt(SortedSeq(ClosedIn(container))[n])]

\* The opening event of the open element at depth d.
OpenAtDepth(d) ==
    CHOOSE p \in 1..Len(xml_events) :
      /\ IsStartElement(p)
      /\ DepthAfter(p) = d
      /\ \A m \in p..Len(xml_events) : DepthAfter(m) >= d

\* The five lists and the mappings of the open elements are those of the
\* tree read so far.
ClassifiedByEnclosing ==
    /\ agents = [n \in 1..Cardinality(ClosedIn("AGENTS")) |->
                    Agent(ElementsClosedIn("AGENTS")[n])]
    /\ dma_rd_commands = CommandList(ElementsClosedIn("DMA_RD_COMMANDS"))
    /\ dma_wr_commands = CommandList(ElementsClosedIn("DMA_WR_COMMANDS"))
    /\ mce_commands = CommandList(ElementsClosedIn("MCE_COMMANDS"))
    /\ ple_commands = CommandList(ElementsClosedIn("PLE_COMMANDS"))
    /\ \A d \in 1..Len(pending_elements_stack) :
         /\ pending_elements_stack[d].name = xml_events[OpenAtDepth(d)].name
         /\ pending_elements_stack[d].child_element_values = FieldsOf(OpenAtDepth(d))

-----------------------------------------------------------------------------
====
